-------------------------- MODULE MCConnectionPool --------------------------
(***************************************************************************)
(* ConnectionPool for TLC.  Three calls meet at i; two of them may ask for *)
(* a platform of their own instead, so that a pool of two can overflow.    *)
(***************************************************************************)
EXTENDS ConnectionPool

CONSTANTS i, j, k, a, b, c

MCAsks == {<<a, i>>, <<b, i>>, <<b, j>>, <<c, i>>, <<c, k>>}
=============================================================================
