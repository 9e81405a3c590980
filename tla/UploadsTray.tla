---------------------------- MODULE UploadsTray ----------------------------
(***************************************************************************)
(* Uploads in the browser (frontend/src/components/uploads): the tray that  *)
(* follows each file through create, PUT and complete and closes itself     *)
(* five seconds after a success, and the page's cached list of the          *)
(* company's documents, which is polled while one is processing.            *)
(*                                                                         *)
(* setItems is called with updaters: they wait in React's queue until the   *)
(* next render applies them in order.                                       *)
(* With EventsBeforeRender, an event (a click, an answer, a timer) may be   *)
(* handled while updaters wait for the render; without, nothing comes before*)
(* it.  The microtasks that follow an answer (the patch, the refetch,       *)
(* allSettled) are part of its action.                                      *)
(*                                                                         *)
(* The documents tab is open and its list loaded once.  A fetch of the list *)
(* that fails is retried by the query client: only the one that succeeds is *)
(* an action here.                                                          *)
(***************************************************************************)
EXTENDS Naturals, Sequences

CONSTANTS
    Files,              \* the files the user picks, each an item of its own
    MaxMutations,       \* retries and deletions the user asks for
    EventsBeforeRender

ASSUME BoundAssumption == MaxMutations \in Nat /\ EventsBeforeRender \in BOOLEAN

VARIABLES
    items,     \* the items of the tray, as rendered
    queue,     \* the updaters of setItems that wait for a render
    rendering, \* a render has applied some of them
    timer,     \* the auto-dismiss timer
    batches,   \* the runnable files of each enqueue
    call,      \* where runOne and uploadDocument are
    document,  \* the document's status on the server
    shown,     \* its status in the cached list
    fetch,     \* the request for that list
    mutation,  \* the retry or the deletion of a document
    mutations  \* how many there were

tray == <<items, queue, rendering, timer>>
uploads == <<batches, call>>
page == <<shown, fetch>>
requests == <<mutation, mutations>>
vars == <<tray, uploads, document, page, requests>>
----------------------------------------------------------------------------
ItemStatus == {"absent", "uploading", "processing", "done", "error"}

Running == {"create", "put", "sent", "accepted"}

DocumentStatus == {"none", "pending", "processing", "processed", "failed"}

\* The list of a company without documents.
Empty == [f \in Files |-> "none"]

\* A request for the list: none, sent, or served with the list it brings.
Idle == [state |-> "idle", list |-> Empty]
Sent == [state |-> "sent", list |-> Empty]
Served == [state |-> "served", list |-> document]

Append_(files) == [op |-> "append", files |-> files, status |-> "uploading"]
Patch(f, status) == [op |-> "patch", files |-> {f}, status |-> status]
Clear(by) == [op |-> "clear", files |-> {}, status |-> by]
Settle == [op |-> "settle", files |-> {}, status |-> "none"]

Update ==
    [op : {"append"}, files : SUBSET Files, status : {"uploading"}]
    \cup [op : {"patch"}, files : SUBSET Files, status : ItemStatus \ {"absent"}]
    \cup {Clear("user"), Clear("timer"), Settle}

TypeOK ==
    /\ items \in [Files -> ItemStatus]
    /\ queue \in Seq(Update)
    /\ rendering \in BOOLEAN
    /\ timer \in {"off", "armed"}
    /\ batches \subseteq SUBSET Files
    /\ call \in [Files -> {"idle", "rejected", "ok", "error"} \cup Running]
    /\ document \in [Files -> DocumentStatus]
    /\ shown \in [Files -> DocumentStatus]
    /\ fetch \in [state : {"idle", "sent", "served"}, list : [Files -> DocumentStatus]]
    /\ mutation \in [Files -> {"none", "retry", "delete", "served", "lost"}]
    /\ mutations \in 0 .. MaxMutations

Init ==
    /\ items = [f \in Files |-> "absent"]
    /\ queue = <<>>
    /\ rendering = FALSE
    /\ timer = "off"
    /\ batches = {}
    /\ call = [f \in Files |-> "idle"]
    /\ document = Empty
    /\ shown = Empty
    /\ fetch = Idle
    /\ mutation = [f \in Files |-> "none"]
    /\ mutations = 0

\* setItems, once or a second time to settle.
Queued(u, settles) == queue' = queue \o (IF settles THEN <<u, Settle>> ELSE <<u>>)

\* Anything else happens after the render, or before it.
Handled == queue = <<>> \/ (EventsBeforeRender /\ ~ rendering)
----------------------------------------------------------------------------
(* The updaters, in a render. *)

Patched(u) ==
    [f \in Files |->
        IF f \in u.files /\ items[f] # "absent" THEN u.status ELSE items[f]]

Appended(u) ==
    [f \in Files |->
        IF f \notin u.files THEN items[f]
        ELSE IF call[f] = "rejected" THEN "error" ELSE "uploading"]

\* maybeScheduleDismiss: every item there is (there may be none) has succeeded.
Dismissable == \A f \in Files : items[f] \in {"absent", "done"}

Render ==
    /\ queue # <<>>
    /\ LET u == Head(queue) IN
        /\ items' = CASE u.op = "append" -> Appended(u)
                      [] u.op = "patch" -> Patched(u)
                      [] u.op = "clear" -> [f \in Files |-> "absent"]
                      [] u.op = "settle" -> items
        /\ timer' = IF u.op = "settle" /\ Dismissable THEN "armed" ELSE timer
    /\ queue' = Tail(queue)
    /\ rendering' = (Tail(queue) # <<>>)
    /\ UNCHANGED <<uploads, document, page, requests>>
----------------------------------------------------------------------------
(* The user and the timer. *)

Picked(pdfs, others) ==
    /\ Handled
    /\ pdfs \cup others # {} /\ pdfs \cap others = {}
    /\ \A f \in pdfs \cup others : call[f] = "idle"
    /\ Queued(Append_(pdfs \cup others), pdfs = {})
    /\ batches' = IF pdfs = {} THEN batches ELSE batches \cup {pdfs}
    /\ call' = [f \in Files |->
                    IF f \in pdfs THEN "create"
                    ELSE IF f \in others THEN "rejected" ELSE call[f]]
    /\ UNCHANGED <<items, rendering, document, page, requests>>

EnqueueKeepingTimer(pdfs, others) == Picked(pdfs, others) /\ UNCHANGED timer   \* mutant

\* Files of another type than application/pdf become items with an error and are
\* never sent.
Enqueue(pdfs, others) == Picked(pdfs, others) /\ timer' = "off"

Dismissed(by) ==
    /\ Handled
    /\ timer' = "off"
    /\ Queued(Clear(by), FALSE)
    /\ UNCHANGED <<items, rendering, uploads, document, page, requests>>

\* The close button, which an empty tray does not have.
Dismiss ==
    /\ \E f \in Files : items[f] # "absent"
    /\ Dismissed("user")

TimerFires == timer = "armed" /\ Dismissed("timer")
----------------------------------------------------------------------------
(* uploadDocument, with the server's side of each request. *)

Moves(f, from, to) ==
    /\ Handled
    /\ call[f] = from
    /\ call' = [call EXCEPT ![f] = to]
    /\ UNCHANGED <<items, rendering, timer, batches, page, requests>>

\* The row is committed and the signed URL returned.
CreateServed(f) ==
    /\ Moves(f, "create", "put")
    /\ document' = [document EXCEPT ![f] = "pending"]
    /\ UNCHANGED queue

\* The last progress event of the PUT: the bytes are sent.
UploadedAsDone(f) ==   \* mutant: shown as done before the complete call
    /\ Moves(f, "put", "sent")
    /\ Queued(Patch(f, "done"), FALSE)
    /\ UNCHANGED document

Uploaded(f) ==
    /\ Moves(f, "put", "sent")
    /\ Queued(Patch(f, "processing"), FALSE)
    /\ UNCHANGED document

\* The PUT is answered with a 2xx and complete called; start_processing commits, its
\* dispatch may have failed.
CompleteServed(f) ==
    /\ document[f] # "none"
    /\ Moves(f, "sent", "accepted")
    /\ \E status \in {"processing", "failed"} :
        document' = [document EXCEPT ![f] = status]
    /\ UNCHANGED queue

LastOfBatch(f) ==
    \E b \in batches : f \in b /\ \A g \in b \ {f} : call[g] \notin Running

\* runOne ends, and with the last of its batch, settle.
EndsSettledFirst(f, result) ==   \* mutant: settle overtakes the last patch
    /\ Handled
    /\ call' = [call EXCEPT ![f] = IF result = "done" THEN "ok" ELSE "error"]
    /\ queue' = queue \o (IF LastOfBatch(f) THEN <<Settle>> ELSE <<>>) \o <<Patch(f, result)>>
    /\ UNCHANGED <<items, rendering, timer, batches, document, requests>>

Ends(f, result) ==
    /\ Handled
    /\ call' = [call EXCEPT ![f] = IF result = "done" THEN "ok" ELSE "error"]
    /\ Queued(Patch(f, result), LastOfBatch(f))
    /\ UNCHANGED <<items, rendering, timer, batches, document, requests>>

\* invalidateQueries: the list is fetched again; a fetch under way is cancelled.
InvalidateJoining == fetch' = (IF fetch = Idle THEN Sent ELSE fetch) /\ UNCHANGED shown   \* mutant

Invalidate == fetch' = Sent /\ UNCHANGED shown

CompleteAnswered(f) == call[f] = "accepted" /\ Ends(f, "done") /\ Invalidate

\* A request is refused or fails, before or after the server has served it.
CallFails(f) == call[f] \in Running /\ Ends(f, "error") /\ UNCHANGED page
----------------------------------------------------------------------------
(* The list of documents. *)

\* A worker of DocumentIngestion finishes the document.
ProcessingEnds(f) ==
    /\ Handled
    /\ document[f] = "processing"
    /\ \E status \in {"processed", "failed"} :
        document' = [document EXCEPT ![f] = status]
    /\ UNCHANGED <<tray, uploads, page, requests>>

\* refetchInterval
Poll ==
    /\ Handled
    /\ fetch = Idle
    /\ \E f \in Files : shown[f] = "processing"
    /\ fetch' = Sent
    /\ UNCHANGED <<tray, uploads, document, shown, requests>>

ListServed ==
    /\ Handled
    /\ fetch = Sent
    /\ fetch' = Served
    /\ UNCHANGED <<tray, uploads, document, shown, requests>>

ListAnswered ==
    /\ Handled
    /\ fetch.state = "served"
    /\ shown' = fetch.list
    /\ fetch' = Idle
    /\ UNCHANGED <<tray, uploads, document, requests>>

\* The page's buttons: Retry on a failed document, Delete on any.
Mutate(f, op) ==
    /\ Handled
    /\ mutation[f] = "none"
    /\ mutations < MaxMutations
    /\ IF op = "retry" THEN shown[f] = "failed" ELSE shown[f] # "none"
    /\ mutation' = [mutation EXCEPT ![f] = op]
    /\ mutations' = mutations + 1
    /\ UNCHANGED <<tray, uploads, document, page>>

MutationServed(f) ==
    /\ Handled
    /\ mutation[f] \in {"retry", "delete"}
    /\ document[f] # "none"
    /\ document' = [document EXCEPT ![f] = IF mutation[f] = "retry" THEN "processing" ELSE "none"]
    /\ mutation' = [mutation EXCEPT ![f] = "served"]
    /\ UNCHANGED <<tray, uploads, page, mutations>>

MutationAnswered(f) ==
    /\ Handled
    /\ mutation[f] = "served"
    /\ mutation' = [mutation EXCEPT ![f] = "none"]
    /\ Invalidate
    /\ UNCHANGED <<tray, uploads, document, mutations>>

\* Without onSuccess, the list is not fetched again.
MutationFails(f) ==
    /\ Handled
    /\ mutation[f] \in {"retry", "delete", "served"}
    /\ mutation' = [mutation EXCEPT ![f] = "lost"]
    /\ UNCHANGED <<tray, uploads, document, page, mutations>>
----------------------------------------------------------------------------
Advances(f) ==
    CreateServed(f) \/ Uploaded(f) \/ CompleteServed(f) \/ CompleteAnswered(f)
        \/ CallFails(f)

Fetches == Poll \/ ListServed \/ ListAnswered

MutationEnds(f) == MutationServed(f) \/ MutationAnswered(f) \/ MutationFails(f)

User ==
    \/ \E pdfs, others \in SUBSET Files : Enqueue(pdfs, others)
    \/ Dismiss
    \/ \E f \in Files : Mutate(f, "retry") \/ Mutate(f, "delete")

Next ==
    \/ Render \/ TimerFires \/ Fetches \/ User
    \/ \E f \in Files : Advances(f) \/ ProcessingEnds(f) \/ MutationEnds(f)

Spec == Init /\ [][Next]_vars

\* React renders, timers fire and requests are answered or fail.  Nothing is assumed
\* of the user or of the worker of a document.
FairSpec ==
    /\ Spec
    /\ WF_vars(Render) /\ WF_vars(TimerFires)
    /\ WF_vars(Fetches)
    /\ \A f \in Files : WF_vars(Advances(f)) /\ WF_vars(MutationEnds(f))
----------------------------------------------------------------------------
(* Properties. *)

DismissedByUser == queue # <<>> /\ Head(queue) = Clear("user")

\* uploads-context.tsx:98 "Re-read the freshest items via the state updater to decide
\* auto-dismiss": only what succeeded leaves the tray by itself; a file in flight and
\* an error stay until the user closes the tray.
OnlyDoneItemsExpire ==
    [][\A f \in Files :
        items[f] \notin {"absent", "done"} /\ items'[f] = "absent" => DismissedByUser]_vars

\* What the tray calls done has been handed to a worker: its document has left
\* "pending" for good, whatever was lost, retried or deleted on the way.
DoneIsHandedOver == \A f \in Files : items[f] = "done" => document[f] # "pending"

\* A tray in which everything succeeded closes, unless something new comes into it:
\* the batch that settles last sees the items of all.
SuccessCloses ==
    (/\ queue = <<>> /\ Dismissable /\ \A f \in Files : call[f] \notin Running)
    ~> ((\A f \in Files : items[f] = "absent") \/ ~ Dismissable)

\* What makes the first two inductive when a render comes before anything else: at
\* most one update and the settle that follows it wait, and the timer only runs when
\* there is nothing it must not take away.
Waiting(u) ==
    /\ u.op = "append" => timer = "off" /\ \A f \in u.files : call[f] \in {"create", "rejected"}
    /\ u.op = "patch" =>
        \A f \in u.files :
            call[f] = CASE u.status = "done" -> "ok" [] u.status = "error" -> "error"
                        [] OTHER -> "sent"
    /\ u = Clear("timer") => Dismissable

TrayInvariant ==
    /\ TypeOK
    /\ queue = <<>> \/ \E u \in Update : (queue = <<u>> \/ queue = <<u, Settle>>) /\ Waiting(u)
    /\ timer = "armed" => Dismissable
    /\ \A f \in Files :
        /\ items[f] = "done" => call[f] = "ok"
        /\ call[f] \in {"accepted", "ok"} => document[f] # "pending"

\* The list ends up showing what the server has of an uploaded document, unless the
\* answer to the user's own retry or deletion was lost: every change the server makes
\* is polled for or answered with a fetch that was sent after it.
ListCatchesUp ==
    \A f \in Files :
        call[f] = "ok" ~> [](mutation[f] # "lost" => <>(shown[f] = document[f]))

\* documents.ts:18 refetchInterval stops when nothing is processing: it never stops on
\* something old.  What the list shows of an uploaded document, or will show when the
\* fetch under way is answered, is what the server has, or is polled again, or a fetch
\* is yet to be served; unless the answer to a retry or a deletion is on its way or lost.
Coming(f) == IF fetch.state = "served" THEN fetch.list[f] ELSE shown[f]

ListNeverRests ==
    \A f \in Files :
        call[f] = "ok" /\ mutation[f] \notin {"served", "lost"} =>
            fetch = Sent \/ Coming(f) \in {document[f], "processing"}

\* uploads-context.tsx:57: a tray in which nothing runs and everything succeeded is about
\* to close: its timer runs, in whatever order files, batches and dismissals ended.
DoneTrayIsTimed ==
    /\ queue = <<>> /\ \A f \in Files : call[f] \notin Running
    /\ Dismissable /\ \E f \in Files : items[f] # "absent"
    => timer = "armed"

\* What makes it inductive: a file that is under way has a batch, which settles after the
\* last of its files; and a batch of which no file is under way has queued its settle.
BatchesSettle ==
    /\ \A f \in Files : call[f] \in Running => \E b \in batches : f \in b
    /\ queue # <<>> /\ (\A f \in Files : call[f] \notin Running) =>
            Head(queue).op = "clear" \/ queue[Len(queue)] = Settle
=============================================================================
