---------------------------- MODULE UploadPromise ----------------------------
(***************************************************************************)
(* What the ingestor promises its clients and the rest of the system,      *)
(* without rows, locks, remote calls or faults: which uploads are kept     *)
(* (their row is stored, processing or completed), which were announced    *)
(* (a wallpaper.uploaded event is in the stream), and what each client was *)
(* told. Ingestor implements it.                                           *)
(***************************************************************************)
CONSTANTS Upload, Content

VARIABLES
  content,    \* deduplication key of each upload
  answer,     \* what the client of each upload was told
  kept,       \* uploads the service keeps
  announced   \* uploads other services have been told about

vars == <<content, answer, kept, announced>>

Init ==
  /\ content \in [Upload -> Content]
  /\ answer = [u \in Upload |-> "none"]
  /\ kept = {}
  /\ announced = {}

\* One wallpaper per user and content, and none for a duplicate.
Keep(u) ==
  /\ u \notin kept
  /\ answer[u] # "duplicate"
  /\ \A v \in kept : content[v] # content[u]
  /\ kept' = kept \cup {u}
  /\ UNCHANGED <<content, answer, announced>>

\* Giving up what was kept is possible only until the client was told.
Drop(u) ==
  /\ u \in kept
  /\ answer[u] # "accepted"
  /\ kept' = kept \ {u}
  /\ UNCHANGED <<content, answer, announced>>

Announce(u) ==
  /\ u \in kept
  /\ announced' = announced \cup {u}
  /\ UNCHANGED <<content, answer, kept>>

Answer(u, a) ==
  /\ answer[u] = "none"
  /\ answer' = [answer EXCEPT ![u] = a]
  /\ UNCHANGED content

\* A publish that failed may have put the event in the stream all the same.
Accept(u) ==
  /\ u \in kept
  /\ Answer(u, "accepted")
  /\ announced' \in {announced, announced \cup {u}}
  /\ UNCHANGED kept

Duplicate(u) ==
  /\ u \notin kept
  /\ \E v \in kept : content[v] = content[u]
  /\ Answer(u, "duplicate")
  /\ UNCHANGED <<kept, announced>>

\* An error answer promises nothing: the wallpaper may be dropped with it, or
\* kept all the same.
Reject(u) ==
  /\ Answer(u, "rejected")
  /\ kept' \in {kept, kept \ {u}}
  /\ UNCHANGED announced

Next ==
  \E u \in Upload :
    Keep(u) \/ Drop(u) \/ Announce(u) \/ Accept(u) \/ Duplicate(u) \/ Reject(u)

Spec == Init /\ [][Next]_vars
=============================================================================
