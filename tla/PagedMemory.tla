----------------------------- MODULE PagedMemory -----------------------------
(***************************************************************************)
(* What the virtual memory promises to the threads that use it: pages that *)
(* hold what was stored in them, however few the frames behind them.       *)
(*                                                                         *)
(* The promise has two exceptions, both in the code (README, "Findings").  *)
(* Once in the life of the program one page may turn to zeros, and a race  *)
(* may make the memory inexact, after which it promises nothing.           *)
(***************************************************************************)
CONSTANTS Pages, Words

VARIABLES
    contents,   (* the words stored in each page, unwritten ones left out *)
    forgotten,  (* whether a page has been forgotten                      *)
    exact       (* whether reads return what was stored                   *)

pagedVars == <<contents, forgotten, exact>>

Init ==
    /\ contents = [p \in Pages |-> {}]
    /\ forgotten = FALSE
    /\ exact = TRUE

Store(p, w) ==
    /\ exact
    /\ contents' = [contents EXCEPT ![p] = @ \cup {<<p, w>>}]
    /\ UNCHANGED <<forgotten, exact>>

Forget(p) ==
    /\ exact /\ ~forgotten
    /\ contents' = [contents EXCEPT ![p] = {}]
    /\ forgotten' = TRUE
    /\ UNCHANGED exact

LoseExactness == ~exact'

Next ==
    \/ \E p \in Pages, w \in Words : Store(p, w)
    \/ \E p \in Pages : Forget(p)
    \/ LoseExactness

Spec == Init /\ [][Next]_pagedVars
=============================================================================
