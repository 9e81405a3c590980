------------------------- MODULE UploadsTrayProofs -------------------------
(* Proofs about UploadsTray: of its tray when React renders before anything else *)
(* happens, of its list in any case.                                            *)
EXTENDS UploadsTray, SequenceTheorems, TLAPS

\* The updaters are well-formed.
LEMMA UpdatesAreTyped ==
    /\ Settle \in Update /\ Clear("user") \in Update /\ Clear("timer") \in Update
    /\ \A files \in SUBSET Files : Append_(files) \in Update
    /\ \A f \in Files : \A status \in {"processing", "done", "error"} : Patch(f, status) \in Update
BY DEF Settle, Clear, Append_, Patch, Update, ItemStatus

\* What an event may leave in the queue: one update that may wait, and perhaps settle.
LEMMA QueuedIsTyped ==
    ASSUME NEW u \in Update, NEW settles \in BOOLEAN, queue = <<>>, Queued(u, settles)
    PROVE queue' \in Seq(Update) /\ (queue' = <<u>> \/ queue' = <<u, Settle>>)
<1>1. Settle \in Update
  BY UpdatesAreTyped
<1>2. <<u>> \in Seq(Update) /\ <<u, Settle>> \in Seq(Update)
  BY <1>1
<1>3. <<>> \o <<u>> = <<u>> /\ <<>> \o <<u, Settle>> = <<u, Settle>>
  BY <1>2, ConcatEmptySeq
<1> QED BY <1>2, <1>3 DEF Queued

\* Taking an update from such a queue.
LEMMA Taken ==
    ASSUME NEW u, NEW w, NEW q, q = <<u>> \/ q = <<u, w>>
    PROVE Head(q) = u /\ (Tail(q) = <<>> \/ Tail(q) = <<w>>)
<1>1. Head(<<u>>) = u /\ Tail(<<u>>) = <<>>
  OBVIOUS
<1>2. Head(<<u, w>>) = u /\ Tail(<<u, w>>) = <<w>>
  OBVIOUS
<1> QED BY <1>1, <1>2

LEMMA InitTray == Init => TrayInvariant
<1> SUFFICES ASSUME Init PROVE TrayInvariant
  OBVIOUS
<1>1. Empty \in [Files -> DocumentStatus] /\ \A f \in Files : Empty[f] = "none"
  BY DEF Empty, DocumentStatus
<1>2. TypeOK
  <2>1. Idle \in [state : {"idle", "sent", "served"}, list : [Files -> DocumentStatus]]
    BY <1>1 DEF Idle
  <2>2. queue \in Seq(Update) /\ batches \subseteq SUBSET Files /\ mutations \in 0 .. MaxMutations
    BY BoundAssumption DEF Init
  <2> QED BY <1>1, <2>1, <2>2 DEF Init, TypeOK, ItemStatus
<1> QED BY <1>1, <1>2 DEF Init, TrayInvariant

\* Rendering one update.
LEMMA RenderKeepsTray ==
    ASSUME TrayInvariant, Render
    PROVE TrayInvariant'
<1> DEFINE u == Head(queue)
<1>1. PICK v \in Update : (queue = <<v>> \/ queue = <<v, Settle>>) /\ Waiting(v)
  BY DEF TrayInvariant, Render
<1>2. /\ u = v /\ u \in Update /\ Waiting(u)
      /\ Tail(queue) = <<>> \/ Tail(queue) = <<Settle>>
  <2> HIDE DEF u
  <2>1. Head(queue) = v /\ (Tail(queue) = <<>> \/ Tail(queue) = <<Settle>>)
    BY <1>1, Taken
  <2> QED BY <2>1, <1>1 DEF u
<1>3. /\ items' = CASE u.op = "append" -> Appended(u)
                    [] u.op = "patch" -> Patched(u)
                    [] u.op = "clear" -> [f \in Files |-> "absent"]
                    [] u.op = "settle" -> items
      /\ timer' = IF u.op = "settle" /\ Dismissable THEN "armed" ELSE timer
      /\ queue' = Tail(queue)
      /\ rendering' = (Tail(queue) # <<>>)
      /\ UNCHANGED <<uploads, document, page, requests>>
  BY DEF Render
<1>4. u.op \in {"append", "patch", "clear", "settle"} /\ u.files \subseteq Files
      /\ u.status \in ItemStatus \cup {"user", "timer", "none"}
      /\ (u.op = "patch" => u.status \in ItemStatus \ {"absent"})
  BY <1>2 DEF Update, Clear, Settle, ItemStatus
<1>5. /\ items \in [Files -> ItemStatus]
      /\ timer \in {"off", "armed"}
      /\ timer = "armed" => Dismissable
      /\ \A f \in Files : items[f] = "done" => call[f] = "ok"
  BY DEF TrayInvariant, TypeOK
<1>6. items' \in [Files -> ItemStatus] /\ timer' \in {"off", "armed"}
      /\ (timer' = "armed" => Dismissable')
      /\ \A f \in Files : items'[f] = "done" => call[f] = "ok"
  <2>1. CASE u.op = "append"
    BY <2>1, <1>2, <1>3, <1>4, <1>5 DEF Appended, Waiting, Dismissable, ItemStatus
  <2>2. CASE u.op = "patch"
    <3>1. items' = Patched(u) /\ timer' = timer
      BY <2>2, <1>3
    <3>2. ASSUME NEW f \in Files
          PROVE /\ items'[f] \in ItemStatus
                /\ items'[f] = "done" => call[f] = "ok"
                /\ items[f] \in {"absent", "done"} => items'[f] \in {"absent", "done"}
      BY <3>1, <2>2, <1>2, <1>4, <1>5 DEF Patched, Waiting, ItemStatus
    <3> QED BY <3>1, <3>2, <1>5 DEF Patched, Dismissable
  <2>3. CASE u.op \in {"clear", "settle"}
    BY <2>3, <1>3, <1>5 DEF Dismissable, ItemStatus
  <2> QED BY <2>1, <2>2, <2>3, <1>4
<1>7. queue' \in Seq(Update) /\ rendering' \in BOOLEAN
      /\ (queue' = <<>> \/ queue' = <<Settle>>)
  <2>1. Settle \in Update
    BY UpdatesAreTyped
  <2>2. <<>> \in Seq(Update) /\ <<Settle>> \in Seq(Update)
    BY <2>1
  <2> QED BY <2>2, <1>2, <1>3
<1>8. Waiting(Settle)'
  BY DEF Waiting, Settle, Clear
<1>9. /\ batches' = batches /\ call' = call /\ document' = document /\ shown' = shown
      /\ fetch' = fetch /\ mutation' = mutation /\ mutations' = mutations
  BY <1>3 DEF uploads, page, requests
<1> QED
  BY <1>6, <1>7, <1>8, <1>9, UpdatesAreTyped DEF TrayInvariant, TypeOK

\* The calls follow their documents: a document is pending only before complete.
CallsAhead == \A f \in Files : call[f] \in {"accepted", "ok"} => document[f] # "pending"

\* An event leaves the items alone and may stop the timer; the rest is up to it.
LEMMA EventKeepsTray ==
    ASSUME TrayInvariant, TypeOK', CallsAhead',
           queue' = <<>> \/ \E u \in Update : (queue' = <<u>> \/ queue' = <<u, Settle>>) /\ Waiting(u)',
           items' = items, timer' \in {timer, "off"},
           \A f \in Files : call[f] = "ok" => call'[f] = "ok"
    PROVE TrayInvariant'
<1>1. timer' = "armed" => Dismissable'
  BY DEF TrayInvariant, Dismissable
<1> QED BY <1>1 DEF TrayInvariant, CallsAhead

LEMMA EnqueueKeepsTray ==
    ASSUME TrayInvariant, queue = <<>>, NEW pdfs \in SUBSET Files, NEW others \in SUBSET Files,
           Enqueue(pdfs, others)
    PROVE TrayInvariant'
<1> DEFINE u == Append_(pdfs \cup others)
<1>1. u \in Update
  BY UpdatesAreTyped
<1>2. queue' \in Seq(Update) /\ (queue' = <<u>> \/ queue' = <<u, Settle>>)
  <2> HIDE DEF u
  <2>1. Queued(u, pdfs = {})
    BY DEF Enqueue, Picked, u
  <2> QED BY <2>1, <1>1, QueuedIsTyped
<1>3. /\ timer' = "off"
      /\ \A f \in pdfs \cup others : call[f] = "idle"
      /\ call' = [f \in Files |->
                    IF f \in pdfs THEN "create"
                    ELSE IF f \in others THEN "rejected" ELSE call[f]]
      /\ batches' \subseteq batches \cup {pdfs}
      /\ items' = items /\ rendering' = rendering /\ document' = document
      /\ shown' = shown /\ fetch' = fetch /\ mutation' = mutation /\ mutations' = mutations
  BY DEF Enqueue, Picked, page, requests
<1>4. TypeOK'
  BY <1>2, <1>3 DEF TrayInvariant, TypeOK, Running
<1>5. Waiting(u)'
  BY <1>3 DEF Waiting, Append_, Clear
<1>6. CallsAhead' /\ \A f \in Files : call[f] = "ok" => call'[f] = "ok"
  BY <1>3 DEF TrayInvariant, CallsAhead
<1> QED
  <2> HIDE DEF u
  <2> QED BY <1>1, <1>2, <1>3, <1>4, <1>5, <1>6, EventKeepsTray

LEMMA DismissedKeepsTray ==
    ASSUME TrayInvariant, queue = <<>>, NEW by \in {"user", "timer"}, Dismissed(by),
           by = "timer" => timer = "armed"
    PROVE TrayInvariant'
<1> DEFINE u == Clear(by)
<1>1. u \in Update
  BY UpdatesAreTyped
<1>2. queue' \in Seq(Update) /\ (queue' = <<u>> \/ queue' = <<u, Settle>>)
  <2> HIDE DEF u
  <2>1. Queued(u, FALSE)
    BY DEF Dismissed, u
  <2> QED BY <2>1, <1>1, QueuedIsTyped
<1>3. /\ timer' = "off" /\ items' = items /\ rendering' = rendering
      /\ call' = call /\ batches' = batches /\ document' = document
      /\ shown' = shown /\ fetch' = fetch /\ mutation' = mutation /\ mutations' = mutations
  BY DEF Dismissed, uploads, page, requests
<1>4. TypeOK'
  BY <1>2, <1>3 DEF TrayInvariant, TypeOK
<1>5. Waiting(u)'
  BY <1>3 DEF Waiting, Clear, TrayInvariant, Dismissable
<1>6. CallsAhead' /\ \A f \in Files : call[f] = "ok" => call'[f] = "ok"
  BY <1>3 DEF TrayInvariant, CallsAhead
<1> QED
  <2> HIDE DEF u
  <2> QED BY <1>1, <1>2, <1>3, <1>4, <1>5, <1>6, EventKeepsTray

LEMMA EndsKeepsTray ==
    ASSUME TrayInvariant, queue = <<>>, NEW f \in Files, NEW result \in {"done", "error"},
           Ends(f, result), call[f] \in Running, result = "done" => call[f] = "accepted",
           shown' = shown, fetch' \in {fetch, Sent}
    PROVE TrayInvariant'
<1> DEFINE u == Patch(f, result)
<1>1. u \in Update
  BY UpdatesAreTyped
<1>2. queue' \in Seq(Update) /\ (queue' = <<u>> \/ queue' = <<u, Settle>>)
  <2> HIDE DEF u
  <2>1. Queued(u, LastOfBatch(f)) /\ LastOfBatch(f) \in BOOLEAN
    BY DEF Ends, u, LastOfBatch
  <2> QED BY <2>1, <1>1, QueuedIsTyped
<1>3. /\ timer' = timer /\ items' = items /\ rendering' = rendering
      /\ call' = [call EXCEPT ![f] = IF result = "done" THEN "ok" ELSE "error"]
      /\ batches' = batches /\ document' = document
      /\ mutation' = mutation /\ mutations' = mutations
  BY DEF Ends, requests
<1>4. TypeOK'
  <2>1. fetch' \in [state : {"idle", "sent", "served"}, list : [Files -> DocumentStatus]]
    BY DEF TrayInvariant, TypeOK, Sent, Empty, DocumentStatus
  <2> QED BY <1>2, <1>3, <2>1 DEF TrayInvariant, TypeOK
<1>5. Waiting(u)'
  BY <1>3 DEF Waiting, Patch, Clear, TrayInvariant, TypeOK
<1>6. CallsAhead' /\ \A g \in Files : call[g] = "ok" => call'[g] = "ok"
  BY <1>3 DEF TrayInvariant, TypeOK, CallsAhead, Running
<1> QED
  <2> HIDE DEF u
  <2> QED BY <1>1, <1>2, <1>3, <1>4, <1>5, <1>6, EventKeepsTray

LEMMA AdvancesKeepsTray ==
    ASSUME TrayInvariant, queue = <<>>, NEW f \in Files, Advances(f)
    PROVE TrayInvariant'
<1>0. call \in [Files -> {"idle", "rejected", "ok", "error"} \cup Running]
      /\ document \in [Files -> DocumentStatus]
  BY DEF TrayInvariant, TypeOK
<1>1. CASE CreateServed(f)
  <2>1. /\ call[f] = "create" /\ call' = [call EXCEPT ![f] = "put"]
        /\ document' = [document EXCEPT ![f] = "pending"]
        /\ queue' = queue /\ timer' = timer /\ items' = items /\ rendering' = rendering
        /\ batches' = batches /\ shown' = shown /\ fetch' = fetch
        /\ mutation' = mutation /\ mutations' = mutations
    BY <1>1 DEF CreateServed, Moves, page, requests
  <2>2. TypeOK'
    BY <2>1 DEF TrayInvariant, TypeOK, Running, DocumentStatus
  <2>3. CallsAhead' /\ \A g \in Files : call[g] = "ok" => call'[g] = "ok"
    BY <2>1, <1>0 DEF TrayInvariant, CallsAhead
  <2> QED BY <2>1, <2>2, <2>3, EventKeepsTray
<1>2. CASE Uploaded(f)
  <2> DEFINE u == Patch(f, "processing")
  <2>1. u \in Update
    BY UpdatesAreTyped
  <2>2. queue' \in Seq(Update) /\ (queue' = <<u>> \/ queue' = <<u, Settle>>)
    <3> HIDE DEF u
    <3>1. Queued(u, FALSE)
      BY <1>2 DEF Uploaded, u
    <3> QED BY <3>1, <2>1, QueuedIsTyped
  <2>3. /\ call[f] = "put" /\ call' = [call EXCEPT ![f] = "sent"]
        /\ document' = document /\ timer' = timer /\ items' = items /\ rendering' = rendering
        /\ batches' = batches /\ shown' = shown /\ fetch' = fetch
        /\ mutation' = mutation /\ mutations' = mutations
    BY <1>2 DEF Uploaded, Moves, page, requests
  <2>4. TypeOK'
    BY <2>2, <2>3 DEF TrayInvariant, TypeOK, Running
  <2>5. Waiting(u)'
    BY <2>3, <1>0 DEF Waiting, Patch, Clear
  <2>6. CallsAhead' /\ \A g \in Files : call[g] = "ok" => call'[g] = "ok"
    BY <2>3, <1>0 DEF TrayInvariant, CallsAhead
  <2> QED
    <3> HIDE DEF u
    <3> QED BY <2>1, <2>2, <2>3, <2>4, <2>5, <2>6, EventKeepsTray
<1>3. CASE CompleteServed(f)
  <2>1. PICK status \in {"processing", "failed"} : document' = [document EXCEPT ![f] = status]
    BY <1>3 DEF CompleteServed
  <2>2. /\ call[f] = "sent" /\ call' = [call EXCEPT ![f] = "accepted"]
        /\ queue' = queue /\ timer' = timer /\ items' = items /\ rendering' = rendering
        /\ batches' = batches /\ shown' = shown /\ fetch' = fetch
        /\ mutation' = mutation /\ mutations' = mutations
    BY <1>3 DEF CompleteServed, Moves, page, requests
  <2>3. TypeOK'
    BY <2>1, <2>2 DEF TrayInvariant, TypeOK, Running, DocumentStatus
  <2>4. CallsAhead' /\ \A g \in Files : call[g] = "ok" => call'[g] = "ok"
    BY <2>1, <2>2, <1>0 DEF TrayInvariant, CallsAhead
  <2> QED BY <2>2, <2>3, <2>4, EventKeepsTray
<1>4. CASE CompleteAnswered(f)
  BY <1>4, EndsKeepsTray DEF CompleteAnswered, Invalidate, Running
<1>5. CASE CallFails(f)
  BY <1>5, EndsKeepsTray DEF CallFails, page
<1> QED BY <1>1, <1>2, <1>3, <1>4, <1>5 DEF Advances

\* The steps of the list and of its buttons leave the tray and the calls alone.
LEMMA ListKeepsTray ==
    ASSUME TrayInvariant, queue = <<>>, UNCHANGED <<tray, uploads>>,
           \/ Fetches
           \/ \E f \in Files : \/ ProcessingEnds(f) \/ MutationEnds(f)
                             \/ \E op \in {"retry", "delete"} : Mutate(f, op)
    PROVE TrayInvariant'
<1>1. /\ queue' = queue /\ timer' = timer /\ items' = items /\ rendering' = rendering
      /\ batches' = batches /\ call' = call
  BY DEF tray, uploads
<1>2. /\ document \in [Files -> DocumentStatus] /\ shown \in [Files -> DocumentStatus]
      /\ fetch \in [state : {"idle", "sent", "served"}, list : [Files -> DocumentStatus]]
      /\ mutation \in [Files -> {"none", "retry", "delete", "served", "lost"}]
      /\ mutations \in 0 .. MaxMutations
  BY DEF TrayInvariant, TypeOK
<1>3. Empty \in [Files -> DocumentStatus]
  BY DEF Empty, DocumentStatus
<1>4. /\ Idle \in [state : {"idle", "sent", "served"}, list : [Files -> DocumentStatus]]
      /\ Sent \in [state : {"idle", "sent", "served"}, list : [Files -> DocumentStatus]]
      /\ Served \in [state : {"idle", "sent", "served"}, list : [Files -> DocumentStatus]]
  BY <1>2, <1>3 DEF Idle, Sent, Served
<1>5. /\ document' \in [Files -> DocumentStatus]
      /\ \A g \in Files : document[g] # "pending" => document'[g] # "pending"
      /\ shown' \in [Files -> DocumentStatus]
      /\ fetch' \in [state : {"idle", "sent", "served"}, list : [Files -> DocumentStatus]]
      /\ mutation' \in [Files -> {"none", "retry", "delete", "served", "lost"}]
      /\ mutations' \in 0 .. MaxMutations
  <2>1. CASE Poll
    BY <2>1, <1>2, <1>4 DEF Poll, requests
  <2>2. CASE ListServed
    BY <2>2, <1>2, <1>4 DEF ListServed, requests
  <2>3. CASE ListAnswered
    BY <2>3, <1>2, <1>4 DEF ListAnswered, requests
  <2>4. ASSUME NEW f \in Files, ProcessingEnds(f)
        PROVE <1>5!1 /\ <1>5!2 /\ <1>5!3 /\ <1>5!4 /\ <1>5!5 /\ <1>5!6
    BY <2>4, <1>2 DEF ProcessingEnds, page, requests, DocumentStatus
  <2>5. ASSUME NEW f \in Files, MutationServed(f)
        PROVE <1>5!1 /\ <1>5!2 /\ <1>5!3 /\ <1>5!4 /\ <1>5!5 /\ <1>5!6
    BY <2>5, <1>2 DEF MutationServed, page, DocumentStatus
  <2>6. ASSUME NEW f \in Files, MutationAnswered(f)
        PROVE <1>5!1 /\ <1>5!2 /\ <1>5!3 /\ <1>5!4 /\ <1>5!5 /\ <1>5!6
    BY <2>6, <1>2, <1>4 DEF MutationAnswered, Invalidate
  <2>7. ASSUME NEW f \in Files, MutationFails(f)
        PROVE <1>5!1 /\ <1>5!2 /\ <1>5!3 /\ <1>5!4 /\ <1>5!5 /\ <1>5!6
    BY <2>7, <1>2 DEF MutationFails, page
  <2>8. ASSUME NEW f \in Files, NEW op \in {"retry", "delete"}, Mutate(f, op)
        PROVE <1>5!1 /\ <1>5!2 /\ <1>5!3 /\ <1>5!4 /\ <1>5!5 /\ <1>5!6
    BY <2>8, <1>2, BoundAssumption DEF Mutate, page
  <2> QED BY <2>1, <2>2, <2>3, <2>4, <2>5, <2>6, <2>7, <2>8 DEF Fetches, MutationEnds
<1>6. TypeOK'
  BY <1>1, <1>5 DEF TrayInvariant, TypeOK
<1>7. CallsAhead' /\ \A g \in Files : call[g] = "ok" => call'[g] = "ok"
  BY <1>1, <1>5 DEF TrayInvariant, CallsAhead
<1> QED BY <1>1, <1>6, <1>7, EventKeepsTray

LEMMA NextKeepsTray ==
    ASSUME EventsBeforeRender = FALSE, TrayInvariant, [Next]_vars
    PROVE TrayInvariant'
<1>1. CASE Render
  BY <1>1, RenderKeepsTray
<1>2. ASSUME NEW pdfs \in SUBSET Files, NEW others \in SUBSET Files, Enqueue(pdfs, others)
      PROVE TrayInvariant'
  BY <1>2, EnqueueKeepsTray DEF Enqueue, Picked, Handled
<1>3. CASE Dismiss
  BY <1>3, DismissedKeepsTray DEF Dismiss, Dismissed, Handled
<1>4. CASE TimerFires
  BY <1>4, DismissedKeepsTray DEF TimerFires, Dismissed, Handled
<1>5. ASSUME NEW f \in Files, Advances(f)
      PROVE TrayInvariant'
  <2>1. queue = <<>>
    BY <1>5 DEF Advances, CreateServed, Uploaded, CompleteServed, CompleteAnswered, CallFails,
        Moves, Ends, Handled
  <2> QED BY <2>1, <1>5, AdvancesKeepsTray
<1>6. ASSUME NEW f \in Files, ProcessingEnds(f) \/ MutationEnds(f)
                \/ \E op \in {"retry", "delete"} : Mutate(f, op)
      PROVE TrayInvariant'
  <2>1. queue = <<>> /\ UNCHANGED <<tray, uploads>>
    BY <1>6 DEF ProcessingEnds, MutationEnds, MutationServed, MutationAnswered, MutationFails,
        Mutate, Handled
  <2> QED BY <2>1, <1>6, ListKeepsTray
<1>7. CASE Fetches
  <2>1. queue = <<>> /\ UNCHANGED <<tray, uploads>>
    BY <1>7 DEF Fetches, Poll, ListServed, ListAnswered, Handled
  <2> QED BY <2>1, <1>7, ListKeepsTray
<1>8. CASE UNCHANGED vars
  <2>1. TypeOK'
    BY <1>8 DEF vars, tray, uploads, page, requests, TrayInvariant, TypeOK
  <2>2. /\ queue' = queue /\ timer' = timer /\ items' = items /\ call' = call
        /\ document' = document
    BY <1>8 DEF vars, tray, uploads
  <2>3. \A u \in Update : Waiting(u) => Waiting(u)'
    BY <2>2 DEF Waiting, Dismissable
  <2> QED BY <2>1, <2>2, <2>3 DEF TrayInvariant, Dismissable
<1> QED BY <1>1, <1>2, <1>3, <1>4, <1>5, <1>6, <1>7, <1>8 DEF Next, User

\* The inductive invariant of the tray, for every number of files and of retries.
THEOREM TrayInvariantHolds ==
    ASSUME EventsBeforeRender = FALSE
    PROVE Spec => []TrayInvariant
<1>1. Init => TrayInvariant
  BY InitTray
<1>2. TrayInvariant /\ [Next]_vars => TrayInvariant'
  BY NextKeepsTray
<1> QED BY <1>1, <1>2, PTL DEF Spec

\* A file shown as done has left "pending" on the server.
THEOREM DoneFilesAreHandedOver ==
    ASSUME EventsBeforeRender = FALSE
    PROVE Spec => []DoneIsHandedOver
<1>1. TrayInvariant => DoneIsHandedOver
  BY DEF TrayInvariant, DoneIsHandedOver
<1> QED BY <1>1, TrayInvariantHolds, PTL

\* If React renders before anything else happens, the timer and the updates take only
\* what succeeded out of the tray.
THEOREM OnlyDoneItemsLeave ==
    ASSUME EventsBeforeRender = FALSE
    PROVE Spec => OnlyDoneItemsExpire
<1> DEFINE Kept == \A f \in Files :
                    items[f] \notin {"absent", "done"} /\ items'[f] = "absent" => DismissedByUser
<1>1. TrayInvariant /\ [Next]_vars => [Kept]_vars
  <2> SUFFICES ASSUME TrayInvariant, Next PROVE Kept
    OBVIOUS
  <2>1. CASE Render
    <3> DEFINE u == Head(queue)
    <3>1. PICK v \in Update : (queue = <<v>> \/ queue = <<v, Settle>>) /\ Waiting(v)
      BY <2>1 DEF TrayInvariant, Render
    <3>2. Head(queue) = v /\ queue # <<>>
      BY <3>1, <2>1, Taken DEF Render
    <3>3. /\ items' = CASE u.op = "append" -> Appended(u)
                    [] u.op = "patch" -> Patched(u)
                    [] u.op = "clear" -> [f \in Files |-> "absent"]
                    [] u.op = "settle" -> items
      BY <2>1 DEF Render
    <3>4. CASE u.op = "append"
      BY <3>4, <3>3 DEF Appended, Kept
    <3>5. CASE u.op = "patch"
      BY <3>5, <3>3, <3>2 DEF Patched, Kept, Update, Clear, Settle, ItemStatus
    <3>6. CASE u.op = "clear"
      BY <3>6, <3>1, <3>2 DEF Kept, Update, Clear, Settle, Waiting, Dismissable, DismissedByUser
    <3>7. CASE u.op = "settle"
      BY <3>7, <3>3 DEF Kept
    <3> QED BY <3>2, <3>4, <3>5, <3>6, <3>7 DEF Update, Clear, Settle
  <2>2. CASE ~ Render
    <3>1. items' = items
      BY <2>2 DEF Next, TimerFires, Dismissed, Fetches, Poll, ListServed, ListAnswered, User,
          Enqueue, Picked, Dismiss, Mutate, Advances, CreateServed, Uploaded, CompleteServed,
          CompleteAnswered, CallFails, Moves, Ends, ProcessingEnds, MutationEnds,
          MutationServed, MutationAnswered, MutationFails, tray
    <3> QED BY <3>1 DEF Kept
  <2> QED BY <2>1, <2>2
<1>2. QED BY <1>1, TrayInvariantHolds, PTL DEF Spec, OnlyDoneItemsExpire
----------------------------------------------------------------------------
(* The list of documents, whatever waits for a render. *)

CallState == {"idle", "rejected", "ok", "error"} \cup Running

MutationState == {"none", "retry", "delete", "served", "lost"}

\* Each file has its call, its document and its mutation.
PageTyped ==
    /\ call \in [Files -> CallState]
    /\ document \in [Files -> DocumentStatus]
    /\ mutation \in [Files -> MutationState]

\* runOne of one file goes on: only CompleteAnswered makes it "ok", and it has the list
\* fetched again.
LEMMA AdvanceKeepsList ==
    ASSUME PageTyped, ListNeverRests, NEW f \in Files, Advances(f)
    PROVE PageTyped' /\ ListNeverRests'
<1>1. mutation' = mutation /\ shown' = shown
  BY DEF Advances, CreateServed, Uploaded, CompleteServed, CompleteAnswered, CallFails, Moves,
      Ends, Invalidate, page, requests
<1>2. CASE \E c \in {"put", "sent", "accepted", "error"} :
            /\ call[f] \in Running /\ call' = [call EXCEPT ![f] = c] /\ fetch' = fetch
            /\ \E status \in DocumentStatus : document' = [document EXCEPT ![f] = status]
  <2>1. PageTyped'
    BY <1>1, <1>2 DEF PageTyped, CallState, Running
  <2>2. ASSUME NEW g \in Files, call'[g] = "ok"
        PROVE g # f /\ call[g] = "ok" /\ document'[g] = document[g]
    BY <2>2, <1>2 DEF PageTyped
  <2> QED BY <2>1, <2>2, <1>1, <1>2 DEF ListNeverRests, Coming
<1>3. CASE CompleteAnswered(f)
  <2>1. /\ call[f] = "accepted" /\ call' = [call EXCEPT ![f] = "ok"] /\ document' = document
        /\ fetch' = Sent
    BY <1>3 DEF CompleteAnswered, Ends, Invalidate
  <2> QED BY <2>1, <1>1 DEF PageTyped, CallState, ListNeverRests, Sent, Empty
<1>4. document = [document EXCEPT ![f] = document[f]] /\ document[f] \in DocumentStatus
  BY DEF PageTyped
<1>5. CASE CreateServed(f)
  BY <1>5, <1>2 DEF CreateServed, Moves, Running, DocumentStatus, page
<1>6. CASE Uploaded(f)
  BY <1>6, <1>2, <1>4 DEF Uploaded, Moves, Running, page
<1>7. CASE CompleteServed(f)
  BY <1>7, <1>2 DEF CompleteServed, Moves, Running, DocumentStatus, page
<1>8. CASE CallFails(f)
  BY <1>8, <1>2, <1>4 DEF CallFails, Ends, page
<1> QED BY <1>3, <1>5, <1>6, <1>7, <1>8 DEF Advances

\* The server changes a document, or answers: what the list had right is then polled for,
\* fetched again, or waits for the answer.
LEMMA ServerKeepsList ==
    ASSUME PageTyped, ListNeverRests, NEW f \in Files,
           ProcessingEnds(f) \/ MutationEnds(f) \/ \E op \in {"retry", "delete"} : Mutate(f, op)
    PROVE PageTyped' /\ ListNeverRests'
<1>1. call' = call
  BY DEF ProcessingEnds, MutationEnds, MutationServed, MutationAnswered, MutationFails, Mutate,
      uploads
<1>2. CASE ProcessingEnds(f)
  <2>1. PICK status \in {"processed", "failed"} : document' = [document EXCEPT ![f] = status]
    BY <1>2 DEF ProcessingEnds
  <2>2. document[f] = "processing" /\ shown' = shown /\ fetch' = fetch /\ mutation' = mutation
    BY <1>2 DEF ProcessingEnds, page, requests
  <2> QED BY <2>1, <2>2, <1>1 DEF PageTyped, DocumentStatus, ListNeverRests, Coming
<1>3. CASE MutationServed(f)
  <2>1. PICK status \in {"processing", "none"} : document' = [document EXCEPT ![f] = status]
    BY <1>3 DEF MutationServed
  <2>2. mutation' = [mutation EXCEPT ![f] = "served"] /\ shown' = shown /\ fetch' = fetch
    BY <1>3 DEF MutationServed, page
  <2> QED BY <2>1, <2>2, <1>1 DEF PageTyped, DocumentStatus, MutationState, ListNeverRests, Coming
<1>4. CASE MutationAnswered(f)
  <2>1. mutation' = [mutation EXCEPT ![f] = "none"] /\ document' = document /\ fetch' = Sent
    BY <1>4 DEF MutationAnswered, Invalidate
  <2> QED BY <2>1, <1>1 DEF PageTyped, MutationState, ListNeverRests, Sent, Empty
<1>5. CASE MutationFails(f)
  <2>1. /\ mutation' = [mutation EXCEPT ![f] = "lost"] /\ document' = document
        /\ shown' = shown /\ fetch' = fetch /\ mutation[f] \in {"retry", "delete", "served"}
    BY <1>5 DEF MutationFails, page
  <2> QED BY <2>1, <1>1 DEF PageTyped, MutationState, ListNeverRests, Coming
<1>6. ASSUME NEW op \in {"retry", "delete"}, Mutate(f, op)
      PROVE PageTyped' /\ ListNeverRests'
  <2>1. /\ mutation[f] = "none" /\ mutation' = [mutation EXCEPT ![f] = op]
        /\ document' = document /\ shown' = shown /\ fetch' = fetch
    BY <1>6 DEF Mutate, page
  <2> QED BY <2>1, <1>1 DEF PageTyped, MutationState, ListNeverRests, Coming
<1> QED BY <1>2, <1>3, <1>4, <1>5, <1>6 DEF MutationEnds

\* The list is polled, served and answered.
LEMMA FetchKeepsList ==
    ASSUME PageTyped, ListNeverRests, Fetches
    PROVE PageTyped' /\ ListNeverRests'
<1>1. call' = call /\ document' = document /\ mutation' = mutation
  BY DEF Fetches, Poll, ListServed, ListAnswered, uploads, requests
<1>2. CASE Poll
  BY <1>1, <1>2 DEF Poll, PageTyped, ListNeverRests
<1>3. CASE ListServed
  <2>1. \A f \in Files : Coming(f)' = document[f]
    BY <1>3, <1>1 DEF ListServed, Served, Coming
  <2> QED BY <2>1, <1>1 DEF PageTyped, ListNeverRests
<1>4. CASE ListAnswered
  <2>1. fetch.state = "served" /\ shown' = fetch.list /\ fetch' = Idle
    BY <1>4 DEF ListAnswered
  <2>2. \A f \in Files : Coming(f)' = Coming(f)
    BY <2>1 DEF Idle, Coming
  <2>3. fetch # Sent
    BY <2>1 DEF Sent
  <2> QED BY <2>2, <2>3, <1>1 DEF PageTyped, ListNeverRests
<1> QED BY <1>2, <1>3, <1>4 DEF Fetches

\* What the list shows of an uploaded document is never left old: for every number of
\* files, of retries and of deletions, and whatever comes before a render.
THEOREM TheListIsNeverLeftOld == Spec => []ListNeverRests
<1>1. Init => PageTyped /\ ListNeverRests
  BY DEF Init, PageTyped, ListNeverRests, CallState, MutationState, DocumentStatus, Empty
<1>2. PageTyped /\ ListNeverRests /\ [Next]_vars => PageTyped' /\ ListNeverRests'
  <2> SUFFICES ASSUME PageTyped, ListNeverRests, [Next]_vars
               PROVE PageTyped' /\ ListNeverRests'
    OBVIOUS
  <2>1. CASE Render \/ TimerFires \/ Dismiss \/ UNCHANGED vars
    <3>1. /\ call' = call /\ document' = document /\ mutation' = mutation
          /\ shown' = shown /\ fetch' = fetch
      BY <2>1 DEF Render, TimerFires, Dismiss, Dismissed, vars, uploads, page, requests
    <3> QED BY <3>1 DEF PageTyped, ListNeverRests, Coming
  <2>2. ASSUME NEW pdfs \in SUBSET Files, NEW others \in SUBSET Files, Enqueue(pdfs, others)
        PROVE PageTyped' /\ ListNeverRests'
    <3>1. /\ call' = [f \in Files |->
                        IF f \in pdfs THEN "create"
                        ELSE IF f \in others THEN "rejected" ELSE call[f]]
          /\ document' = document /\ mutation' = mutation
          /\ shown' = shown /\ fetch' = fetch
      BY <2>2 DEF Enqueue, Picked, page, requests
    <3>2. \A f \in Files : call'[f] = "ok" => call[f] = "ok"
      BY <3>1
    <3>3. PageTyped'
      BY <3>1 DEF PageTyped, CallState, Running
    <3> QED BY <3>1, <3>2, <3>3 DEF ListNeverRests, Coming
  <2>3. ASSUME NEW f \in Files, Advances(f)
        PROVE PageTyped' /\ ListNeverRests'
    BY <2>3, AdvanceKeepsList
  <2>4. ASSUME NEW f \in Files, ProcessingEnds(f) \/ MutationEnds(f)
                                \/ \E op \in {"retry", "delete"} : Mutate(f, op)
        PROVE PageTyped' /\ ListNeverRests'
    BY <2>4, ServerKeepsList
  <2>5. CASE Fetches
    BY <2>5, FetchKeepsList
  <2> QED BY <2>1, <2>2, <2>3, <2>4, <2>5 DEF Next, User
<1> QED BY <1>1, <1>2, PTL DEF Spec
----------------------------------------------------------------------------
(* The tray closes, if React renders before anything else happens. *)

Resting == \A f \in Files : call[f] \notin Running

\* The last update of the queues there are.
LEMMA LastOfQueue ==
    ASSUME NEW u, NEW w
    PROVE <<u>>[Len(<<u>>)] = u /\ <<u, w>>[Len(<<u, w>>)] = w
OBVIOUS

\* A render that empties the queue with nothing running has cleared or settled.
LEMMA RenderTimes ==
    ASSUME TrayInvariant, BatchesSettle, Render
    PROVE BatchesSettle' /\ DoneTrayIsTimed'
<1>1. PICK u \in Update : queue = <<u>> \/ queue = <<u, Settle>>
  BY DEF TrayInvariant, Render
<1>2. Head(queue) = u /\ (Tail(queue) = <<>> \/ Tail(queue) = <<Settle>>)
  BY <1>1, Taken
<1>3. /\ queue' = Tail(queue) /\ call' = call /\ batches' = batches
      /\ u.op = "clear" => items' = [f \in Files |-> "absent"]
      /\ u = Settle => items' = items /\ timer' = IF Dismissable THEN "armed" ELSE timer
  BY <1>2 DEF Render, uploads, Settle
<1>4. BatchesSettle'
  <2>1. queue' # <<>> => queue' = <<Settle>>
    BY <1>2, <1>3
  <2>2. queue' = <<Settle>> => queue'[Len(queue')] = Settle
    BY LastOfQueue
  <2> QED BY <2>1, <2>2, <1>3 DEF BatchesSettle
<1>5. ASSUME queue' = <<>>, Resting'
      PROVE u.op = "clear" \/ u = Settle
  <2>1. queue = <<u>>
    <3>1. Tail(<<u, Settle>>) = <<Settle>> /\ <<Settle>> # <<>>
      OBVIOUS
    <3> QED BY <3>1, <1>1, <1>3, <1>5
  <2>2. queue[Len(queue)] = u /\ queue # <<>>
    BY <2>1, LastOfQueue
  <2> QED BY <2>2, <1>2, <1>3, <1>5 DEF BatchesSettle, Resting
<1>6. DoneTrayIsTimed'
  BY <1>3, <1>5 DEF DoneTrayIsTimed, Resting, Dismissable
<1> QED BY <1>4, <1>6

\* An event that queues an update: with nothing running, a clear or a settle.
LEMMA QueuedSettles ==
    ASSUME queue = <<>>, NEW u \in Update, NEW settles \in BOOLEAN, Queued(u, settles),
           Resting' => settles \/ u.op = "clear",
           \A f \in Files : call'[f] \in Running => \E b \in batches' : f \in b
    PROVE BatchesSettle' /\ DoneTrayIsTimed'
<1>1. queue' = IF settles THEN <<u, Settle>> ELSE <<u>>
  <2>1. <<>> \o <<u>> = <<u>> /\ <<>> \o <<u, Settle>> = <<u, Settle>>
    <3>1. <<u>> \in Seq(Update) /\ <<u, Settle>> \in Seq(Update)
      BY UpdatesAreTyped
    <3> QED BY <3>1, ConcatEmptySeq
  <2> QED BY <2>1 DEF Queued
<1>2. queue' # <<>> /\ Head(queue') = u
  BY <1>1
<1>3. settles => queue'[Len(queue')] = Settle
  BY <1>1, LastOfQueue
<1> QED BY <1>2, <1>3 DEF BatchesSettle, DoneTrayIsTimed, Resting

\* Any other event leaves the tray, and a call that runs goes on running.
LEMMA QuietTimes ==
    ASSUME DoneTrayIsTimed, BatchesSettle, UNCHANGED tray, batches' = batches,
           \A f \in Files : call[f] \in Running <=> call'[f] \in Running
    PROVE BatchesSettle' /\ DoneTrayIsTimed'
BY DEF DoneTrayIsTimed, BatchesSettle, Dismissable, tray

\* The file that ends last settles its batch.
LEMMA EndsTimes ==
    ASSUME TrayInvariant, BatchesSettle, queue = <<>>, NEW f \in Files,
           NEW result \in {"done", "error"}, Ends(f, result), call[f] \in Running
    PROVE BatchesSettle' /\ DoneTrayIsTimed'
<1> DEFINE u == Patch(f, result)
<1>1. u \in Update
  BY UpdatesAreTyped
<1>2. /\ Queued(u, LastOfBatch(f)) /\ LastOfBatch(f) \in BOOLEAN /\ batches' = batches
      /\ call' = [call EXCEPT ![f] = IF result = "done" THEN "ok" ELSE "error"]
      /\ call \in [Files -> {"idle", "rejected", "ok", "error"} \cup Running]
  BY DEF Ends, LastOfBatch, TrayInvariant, TypeOK
<1>3. ASSUME Resting'
      PROVE LastOfBatch(f)
  <2>1. PICK b \in batches : f \in b
    BY DEF BatchesSettle
  <2>2. b \subseteq Files
    BY DEF TrayInvariant, TypeOK
  <2>3. \A g \in b \ {f} : call[g] \notin Running
    BY <1>2, <1>3, <2>2 DEF Resting
  <2> QED BY <2>1, <2>3 DEF LastOfBatch
<1>4. \A g \in Files : call'[g] \in Running => \E b \in batches' : g \in b
  BY <1>2 DEF BatchesSettle, Running
<1> HIDE DEF u
<1> QED BY <1>1, <1>2, <1>3, <1>4, QueuedSettles

LEMMA NextTimes ==
    ASSUME EventsBeforeRender = FALSE, TrayInvariant, BatchesSettle, DoneTrayIsTimed, [Next]_vars
    PROVE BatchesSettle' /\ DoneTrayIsTimed'
<1>0. call \in [Files -> {"idle", "rejected", "ok", "error"} \cup Running]
  BY DEF TrayInvariant, TypeOK
<1>1. CASE Render
  BY <1>1, RenderTimes
<1>2. ASSUME NEW pdfs \in SUBSET Files, NEW others \in SUBSET Files, Enqueue(pdfs, others)
      PROVE BatchesSettle' /\ DoneTrayIsTimed'
  <2> DEFINE u == Append_(pdfs \cup others)
  <2>1. /\ queue = <<>> /\ Queued(u, pdfs = {})
        /\ batches' = IF pdfs = {} THEN batches ELSE batches \cup {pdfs}
        /\ call' = [f \in Files |->
                        IF f \in pdfs THEN "create"
                        ELSE IF f \in others THEN "rejected" ELSE call[f]]
    BY <1>2 DEF Enqueue, Picked, Handled
  <2>2. u \in Update
    BY UpdatesAreTyped
  <2>3. Resting' => pdfs = {}
    BY <2>1 DEF Resting, Running
  <2>4. \A f \in Files : call'[f] \in Running => \E b \in batches' : f \in b
    BY <2>1 DEF BatchesSettle, Running
  <2> HIDE DEF u
  <2> QED BY <2>1, <2>2, <2>3, <2>4, QueuedSettles
<1>3. ASSUME NEW by \in {"user", "timer"}, Dismissed(by)
      PROVE BatchesSettle' /\ DoneTrayIsTimed'
  <2> DEFINE u == Clear(by)
  <2>1. queue = <<>> /\ Queued(u, FALSE) /\ call' = call /\ batches' = batches
    BY <1>3 DEF Dismissed, Handled, uploads
  <2>2. u \in Update /\ u.op = "clear"
    BY UpdatesAreTyped DEF Clear
  <2>3. \A f \in Files : call'[f] \in Running => \E b \in batches' : f \in b
    BY <2>1 DEF BatchesSettle
  <2> HIDE DEF u
  <2> QED BY <2>1, <2>2, <2>3, QueuedSettles
<1>4. ASSUME NEW f \in Files, CreateServed(f) \/ CompleteServed(f)
      PROVE BatchesSettle' /\ DoneTrayIsTimed'
  <2>1. PICK c \in {"put", "accepted"} :
          call[f] \in {"create", "sent"} /\ call' = [call EXCEPT ![f] = c]
    BY <1>4 DEF CreateServed, CompleteServed, Moves
  <2>2. UNCHANGED tray /\ batches' = batches
    BY <1>4 DEF CreateServed, CompleteServed, Moves, tray
  <2>3. \A g \in Files : call[g] \in Running <=> call'[g] \in Running
    BY <2>1, <1>0 DEF Running
  <2> QED BY <2>2, <2>3, QuietTimes
<1>5. ASSUME NEW f \in Files, Uploaded(f)
      PROVE BatchesSettle' /\ DoneTrayIsTimed'
  <2> DEFINE u == Patch(f, "processing")
  <2>1. /\ queue = <<>> /\ Queued(u, FALSE) /\ batches' = batches
        /\ call[f] = "put" /\ call' = [call EXCEPT ![f] = "sent"]
    BY <1>5 DEF Uploaded, Moves, Handled
  <2>2. u \in Update
    BY UpdatesAreTyped
  <2>3. ~ Resting'
    BY <2>1, <1>0 DEF Resting, Running
  <2>4. \A g \in Files : call'[g] \in Running => \E b \in batches' : g \in b
    BY <2>1, <1>0 DEF BatchesSettle, Running
  <2> HIDE DEF u
  <2> QED BY <2>1, <2>2, <2>3, <2>4, QueuedSettles
<1>6. ASSUME NEW f \in Files, CompleteAnswered(f) \/ CallFails(f)
      PROVE BatchesSettle' /\ DoneTrayIsTimed'
  <2>1. PICK result \in {"done", "error"} : Ends(f, result) /\ call[f] \in Running
    BY <1>6 DEF CompleteAnswered, CallFails, Running
  <2>2. queue = <<>>
    BY <2>1 DEF Ends, Handled
  <2> QED BY <2>1, <2>2, EndsTimes
<1>7. ASSUME UNCHANGED <<tray, uploads>>
      PROVE BatchesSettle' /\ DoneTrayIsTimed'
  BY <1>7, QuietTimes DEF uploads
<1>8. CASE Fetches \/ UNCHANGED vars
  BY <1>7, <1>8 DEF Fetches, Poll, ListServed, ListAnswered, vars
<1>9. ASSUME NEW f \in Files, ProcessingEnds(f) \/ MutationEnds(f)
                \/ \E op \in {"retry", "delete"} : Mutate(f, op)
      PROVE BatchesSettle' /\ DoneTrayIsTimed'
  BY <1>7, <1>9 DEF ProcessingEnds, MutationEnds, MutationServed, MutationAnswered,
      MutationFails, Mutate
<1> QED
  BY <1>1, <1>2, <1>3, <1>4, <1>5, <1>6, <1>8, <1>9
  DEF Next, User, TimerFires, Dismiss, Advances

\* If React renders before anything else happens, a tray in which nothing runs and
\* everything succeeded has its timer running, however many files and batches there were.
THEOREM DoneTraysAreTimed ==
    ASSUME EventsBeforeRender = FALSE
    PROVE Spec => []DoneTrayIsTimed
<1>1. Init => BatchesSettle /\ DoneTrayIsTimed
  BY DEF Init, BatchesSettle, DoneTrayIsTimed, Running
<1>2. TrayInvariant /\ BatchesSettle /\ DoneTrayIsTimed /\ [Next]_vars
        => (BatchesSettle /\ DoneTrayIsTimed)'
  BY NextTimes
<1> QED BY <1>1, <1>2, TrayInvariantHolds, PTL DEF Spec
=============================================================================
