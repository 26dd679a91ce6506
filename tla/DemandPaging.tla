---------------------------- MODULE DemandPaging ----------------------------
(***************************************************************************)
(* What demand paging promises, whatever the frames, the free list and the *)
(* replacement policy: at most Size pages are resident, a page becomes     *)
(* resident only because its process asked for it, pages are given up only *)
(* when there is no room, and what is asked for is served.                 *)
(***************************************************************************)
EXTENDS Integers, FiniteSetsExt

CONSTANTS Procs, Pages, Size

VARIABLES
    resident,   \* pages in physical memory, as pairs of process and page
    wanted      \* pages asked for and not yet brought in

pagingState == <<resident, wanted>>

Space == Procs \X Pages
PagesOf(S) == S \X Pages

DemandInit == resident = {} /\ wanted = {}

Fitting(S) == IF Cardinality(S) <= Size THEN {S} ELSE kSubset(Size, S)

(* In one go pages are served, as few as possible are given up, a process   *)
(* may end, and the others ask for pages that are missing.                  *)
Serve(served) ==
    \E kept \in Fitting(resident \cup served), ended \in {{}} \cup {{p} : p \in Procs} :
        /\ resident' = kept \ PagesOf(ended)
        /\ wanted' \in SUBSET (Space \ (resident' \cup PagesOf(ended)))
        /\ wanted \ (served \cup PagesOf(ended)) \subseteq wanted'

DemandNext == \E served \in SUBSET wanted : Serve(served)

(* A page that stays wanted is served.                                      *)
DemandSpec ==
    /\ DemandInit /\ [][DemandNext]_pagingState
    /\ \A w \in Space : WF_pagingState(\E served \in SUBSET wanted : w \in served /\ Serve(served))

=============================================================================
