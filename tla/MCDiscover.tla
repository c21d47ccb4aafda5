----------------------------- MODULE MCDiscover -----------------------------
(* Two ranges with the same first host, one wider than the other. *)
EXTENDS Discover

MCHostsOf == [wide |-> {1, 2}, low |-> {1}]
MCFirstOf == [wide |-> 1, low |-> 1]
MCAnswering == {<<1, 80>>, <<2, 443>>}
MCPortLists == {{80}}

=============================================================================
