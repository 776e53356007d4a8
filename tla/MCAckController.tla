-------------------------- MODULE MCAckController --------------------------
(* AckController on a small instance. *)
EXTENDS AckController

CONSTANTS t1, t2, c1, c2, none

MCTxn    == {t1, t2}
MCOneTxn == {t1}
MCNoTxn  == none
MCClient == {c1, c2}
MCOffset == {0, 1}   \* the synchronous request, and the pre-change timeout
MCDelay  == {1}      \* not longer than the pre-change timeout, longer later

=============================================================================
