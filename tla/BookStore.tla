----------------------------- MODULE BookStore -----------------------------
(***************************************************************************)
(* What deleting pages from a book promises, whatever is done with files:  *)
(* a book loses the pages of one confirmed request and no other, all at    *)
(* once, and is never left without a page.                                 *)
(***************************************************************************)
EXTENDS FiniteSets

CONSTANT Pages              \* book -> the pages it was made with, not none

VARIABLES
    content,                \* book -> its pages; {} for a book that does not exist
    wanted                  \* the page sets whose deletion has been confirmed

storeVars == <<content, wanted>>
Books == DOMAIN Pages
AllPages == UNION {Pages[b] : b \in Books}

StoreInit ==
    /\ content \in [Books -> SUBSET AllPages]
    /\ \A b \in Books : content[b] \in {{}, Pages[b]}
    /\ wanted = {}

\* Requests are confirmed, carried out or given up.
ChangeRequests ==
    /\ wanted' \in SUBSET SUBSET AllPages
    /\ UNCHANGED content

\* Some of the pages may be gone already.
DeletePages(b, drop) ==
    /\ content[b] \ drop # {}
    /\ content' = [content EXCEPT ![b] = @ \ drop]
    /\ UNCHANGED wanted

StoreNext ==
    \/ ChangeRequests
    \/ \E b \in Books : \E drop \in wanted : DeletePages(b, drop)

StoreSpec == StoreInit /\ [][StoreNext]_storeVars
=============================================================================
