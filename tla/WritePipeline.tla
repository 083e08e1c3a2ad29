--------------------------- MODULE WritePipeline ---------------------------
(***************************************************************************)
(* The write path of the Firestore client the application is linked with   *)
(* on iOS (ios/Pods/FirebaseFirestore): what happens to an update() or     *)
(* set() between the Dart call and its answer.                             *)
(*                                                                         *)
(* SyncEngine::WriteMutations persists the write as a batch in the         *)
(* mutation queue of the signed-in user; RemoteStore keeps the oldest      *)
(* batches in a pipeline and sends them over a WriteStream, whose answers  *)
(* carry no identity: each is taken to be for the front of the pipeline.   *)
(* Everything runs as tasks of one worker queue, in the order in which the *)
(* tasks were put there, and every action below is one such task, a step   *)
(* of the backend, or something that happens to the device.                *)
(*                                                                         *)
(* Left out: the watch stream; the opaque stream token, which the          *)
(* handshake does not send; the length of the delays; and the difference   *)
(* between an Open and a Healthy stream, which only decides whether an     *)
(* authentication token is fetched anew.                                   *)
(***************************************************************************)
EXTENDS Integers, Sequences, SequencesExt

CONSTANTS
    Users,             \* the users of the device, signed out being one
    MaxPendingWrites,  \* kMaxPendingWrites, the length of the pipeline
    MaxWrites,         \* bound: writes the application issues
    MaxChanges,        \* bound: notifications of FirebaseAuth
    MaxWaits,          \* bound: calls of waitForPendingWrites
    MaxFaults          \* bound: broken streams, failed tokens, kills, switches

ASSUME UsersAssumption == Users # {}
ASSUME MaxPendingWritesAssumption == MaxPendingWrites \in Nat \ {0}
ASSUME BoundsAssumption == {MaxWrites, MaxChanges, MaxWaits, MaxFaults} \subseteq Nat

VARIABLES
    queue,        \* persisted: the mutation queue of each user, by batch id
    currentUser,  \* SyncEngine::current_user_
    nextBatchId,  \* LevelDbMutationQueue::next_batch_id_
    callbacks,    \* SyncEngine::mutation_callbacks_
    waits,        \* SyncEngine::pending_writes_callbacks_
    remote,       \* RemoteStore, its WriteStream and the call under it
    authUser,     \* the user of FirebaseAuth, ahead of currentUser
    tasks,        \* the worker queue
    issued,       \* history: who was signed in when write number w was issued
    accepted,     \* history: the writes each queue has ever held, in order
    outcome,      \* history: what the caller of each write was told
    log,          \* history: the writes the server applied, oldest first
    refused,      \* history: the writes the server refused
    lost,         \* history: the writes applied whose answer never arrived
    released,     \* history: the writes a waitForPendingWrites answered for
    used          \* how much of the bounds is spent

store == <<queue, currentUser, nextBatchId, callbacks, waits>>
history == <<issued, accepted, outcome, log, refused, lost, released>>
vars == <<store, remote, authUser, tasks, history, used>>

Writes == 1 .. MaxWrites

\* A batch of the queue; write stands for its mutations.
Batch == [id : Nat \ {0}, write : Writes]

\* On the wire, the handshake and its answer are 0, a batch is its write.
Handshake == 0
Wire == {Handshake} \cup Writes

\* fresh: the request was made since the stream was last closed, which is
\* what comparing close_count_ finds out.
Task == [task : {"user"}, user : Users]
        \cup [task : {"token"}, user : Users, fresh : BOOLEAN]
        \cup [task : {"write"}, write : Writes]
        \cup [task : {"wait"}]

Unavailable == "unavailable"
Aborted == "aborted"
Rejected == "rejected"

RemoteStore ==
    [enabled : BOOLEAN,    \* is_network_enabled_
     pipeline : Seq(Batch),
     state : {"Initial", "Starting", "Backoff", "Open", "Error"},
     handshake : BOOLEAN,  \* handshake_complete_
     idle : BOOLEAN,       \* the idle timer runs
     asked : SUBSET BOOLEAN,
     token : Users,
     wire : Seq(Wire),
     answers : Seq(Wire),
     status : {"none", Unavailable, Aborted, Rejected}]

TypeOK ==
    /\ queue \in [Users -> Seq(Batch)]
    /\ currentUser \in Users
    /\ nextBatchId \in Nat \ {0}
    /\ callbacks \in [Users -> SUBSET Batch]
    /\ waits \in SUBSET [id : Nat, writes : SUBSET Writes]
    /\ remote \in RemoteStore
    /\ authUser \in Users
    /\ tasks \in Seq(Task)
    /\ issued \in Seq(Users)
    /\ accepted \in [Users -> Seq(Writes)]
    /\ outcome \in [Writes -> {"none", "ok", "rejected"}]
    /\ log \in Seq(Writes)
    /\ refused \subseteq Writes
    /\ lost \subseteq Writes
    /\ released \subseteq Writes
    /\ used \in [changes : 0 .. MaxChanges, waits : 0 .. MaxWaits, faults : 0 .. MaxFaults]

----------------------------------------------------------------------------
\* The mutation queue.

\* Mutant: the highest id itself.
NextIdLast(q) == Max({0} \cup {Last(q[u]).id : u \in {v \in Users : q[v] # <<>>}})

\* Mutant: ids start afresh with every mutation queue.
NextIdFresh(q) == 1

\* One more than the highest batch id of any user's queue, so that an id is
\* used again once its batch is gone.
LoadNextBatchIdFromDb(q) ==
    Max({0} \cup {Last(q[u]).id : u \in {v \in Users : q[v] # <<>>}}) + 1

\* Mutant: the batch of the given id is taken once more.
NextMutationBatchesFrom(q, id) ==
    LET from == {i \in DOMAIN q : q[i].id >= id}
    IN  IF from = {} THEN <<>> ELSE SubSeq(q, Min(from), Len(q))

\* The batches of a queue from the first one whose id is greater: the key
\* that Seek finds, and those Next comes to from there.
NextMutationBatches(q, id) ==
    LET after == {i \in DOMAIN q : q[i].id > id}
    IN  IF after = {} THEN <<>> ELSE SubSeq(q, Min(after), Len(q))

WriteOf(batches) == [i \in DOMAIN batches |-> batches[i].write]

Pending(u) == Range(WriteOf(queue[u]))

----------------------------------------------------------------------------
\* The stream.  c is the value of remote, and each operator what a method
\* makes of it.

IsOpen(c) == c.state = "Open"

IsStarted(c) == c.state \in {"Starting", "Backoff", "Open"}

\* Start and RequestCredentials.
Start(c) ==
    IF c.state = "Error"
    THEN [c EXCEPT !.state = "Backoff"]
    ELSE [c EXCEPT !.state = "Starting", !.asked = @ \cup {TRUE}]

\* Mutant: a stream that has failed is not started again.
ShouldStartFirstTime(c) == c.enabled /\ c.state = "Initial" /\ c.pipeline # <<>>

ShouldStartWriteStream(c) == c.enabled /\ ~IsStarted(c) /\ c.pipeline # <<>>

StartIfNeeded(c) == IF ShouldStartWriteStream(c) THEN Start(c) ELSE c

\* Write cancels the idle timer.
Write(c, messages) ==
    IF messages = <<>> THEN c ELSE [c EXCEPT !.wire = @ \o messages, !.idle = FALSE]

MarkIdle(c) == [c EXCEPT !.idle = @ \/ IsOpen(c)]

\* FillWritePipeline, AddToWritePipeline and CanAddToWritePipeline.
FillWritePipeline(c, q) ==
    LET room == IF c.enabled THEN MaxPendingWrites - Len(c.pipeline) ELSE 0
        rest == NextMutationBatches(q, IF c.pipeline = <<>> THEN -1 ELSE Last(c.pipeline).id)
        new  == SubSeq(rest, 1, Min({room, Len(rest)}))
        full == [c EXCEPT !.pipeline = @ \o new]
        sent == IF IsOpen(c) /\ c.handshake THEN Write(full, WriteOf(new)) ELSE full
        idle == IF room > 0 /\ sent.pipeline = <<>> THEN MarkIdle(sent) ELSE sent
    IN  StartIfNeeded(idle)

\* Mutant: what the old call still delivers is read on the next one.
DisconnectedKeepsReads(c) ==
    [c EXCEPT !.idle = FALSE,
              !.asked = IF @ = {} THEN {} ELSE {FALSE},
              !.wire = <<>>,
              !.status = "none"]

\* Close, steps 2, 3 and 6: the timers and the call are gone, and what was
\* asked before is stale.
Disconnected(c) ==
    [c EXCEPT !.idle = FALSE,
              !.asked = IF @ = {} THEN {} ELSE {FALSE},
              !.wire = <<>>,
              !.answers = <<>>,
              !.status = "none"]

\* Close(Status::OK()), which finds OnWriteStreamClose with nothing to start.
Stop(c) ==
    IF IsStarted(c)
    THEN [Disconnected(c) EXCEPT !.state = "Initial", !.handshake = FALSE]
    ELSE c

\* InhibitBackoff and backoff_.Reset.
InhibitBackoff(c) == [c EXCEPT !.state = "Initial"]

\* Datastore::IsPermanentWriteError.
IsPermanentWriteError(status) == status = Rejected

\* Mutant: the handshake is taken for a write.
HandleAnyError(c, status) == c.pipeline # <<>> /\ IsPermanentWriteError(status)

\* Whether the end of the stream is the fault of the front of the pipeline: a
\* permanent error after the handshake.
HandleWriteError(c, status) ==
    c.handshake /\ c.pipeline # <<>> /\ IsPermanentWriteError(status)

\* Close with an error.  The handshake flag is reset last, after the pipeline
\* was refilled and the stream started again.
\* q is the queue of the current user as HandleRejectedWrite leaves it.
CloseWithError(c, status, q) ==
    LET closed  == [Disconnected(c) EXCEPT !.state = "Error"]
        refill  == FillWritePipeline([InhibitBackoff(closed) EXCEPT !.pipeline = Tail(@)], q)
        handled == IF HandleWriteError(c, status) THEN refill ELSE closed
    IN  [StartIfNeeded(handled) EXCEPT !.handshake = FALSE]

\* Mutant: the pipeline outlives the streams.
DisableStreamsOnly(c) == Stop([c EXCEPT !.enabled = FALSE])

DisableNetworkInternal(c) == [Stop([c EXCEPT !.enabled = FALSE]) EXCEPT !.pipeline = <<>>]

EnableNetwork(c, q) == FillWritePipeline([c EXCEPT !.enabled = TRUE], q)

RestartNetwork(c, q) == EnableNetwork(InhibitBackoff(DisableNetworkInternal(c)), q)

----------------------------------------------------------------------------
\* The queue was just opened, by a start of the application or for the first
\* time: nothing is connected.
Fresh ==
    [enabled |-> TRUE, pipeline |-> <<>>, state |-> "Initial", handshake |-> FALSE,
     idle |-> FALSE, asked |-> {}, token |-> authUser,
     wire |-> <<>>, answers |-> <<>>, status |-> "none"]

Init ==
    /\ authUser \in Users
    /\ currentUser = authUser
    /\ queue = [u \in Users |-> <<>>]
    /\ nextBatchId = LoadNextBatchIdFromDb(queue)
    /\ callbacks = [u \in Users |-> {}]
    /\ waits = {}
    /\ remote = Fresh
    /\ tasks = <<>>
    /\ issued = <<>>
    /\ accepted = [u \in Users |-> <<>>]
    /\ outcome = [w \in Writes |-> "none"]
    /\ log = <<>>
    /\ refused = {}
    /\ lost = {}
    /\ released = {}
    /\ used = [changes |-> 0, waits |-> 0, faults |-> 0]

Fault ==
    /\ used.faults < MaxFaults
    /\ used' = [used EXCEPT !.faults = @ + 1]

\* The stream closes: tokens on their way through the worker queue are stale,
\* and answers that were not read are lost.
StaleTokens ==
    [i \in DOMAIN tasks |->
        IF tasks[i].task = "token" THEN [tasks[i] EXCEPT !.fresh = FALSE] ELSE tasks[i]]

LoseAnswers == lost' = lost \cup (Range(remote.answers) \ {Handshake})

\* NotifyUser: the callback filed under the batch id, if there is one.
NotifyUser(id, result) ==
    LET told == {c \in callbacks[currentUser] : c.id = id}
    IN  /\ callbacks' = [callbacks EXCEPT ![currentUser] = @ \ told]
        /\ outcome' = [w \in Writes |->
                          IF \E c \in told : c.write = w THEN result ELSE outcome[w]]

TriggerPendingWriteCallbacks(id) ==
    /\ waits' = {x \in waits : x.id # id}
    /\ released' = released \cup UNION {x.writes : x \in waits \ waits'}

\* Mutant: the batch is left in the persisted queue.
RemoveNothing(batch) == UNCHANGED queue

\* The batch leaves the mutation queue, wherever in it it is.
RemoveMutationBatch(batch) ==
    queue' = [queue EXCEPT ![currentUser] = RemoveFirst(@, batch)]

\* HandleSuccessfulWrite and HandleRejectedWrite.
HandleSettledWrite(batch, result) ==
    /\ NotifyUser(batch.id, result)
    /\ TriggerPendingWriteCallbacks(batch.id)
    /\ RemoveMutationBatch(batch)

----------------------------------------------------------------------------
\* What the application and FirebaseAuth put into the worker queue.

\* FirestoreClient::WriteMutations.
IssueWrite ==
    /\ Len(issued) < MaxWrites
    /\ issued' = Append(issued, authUser)
    /\ tasks' = Append(tasks, [task |-> "write", write |-> Len(issued')])
    /\ UNCHANGED <<store, remote, authUser, accepted, outcome, log, refused, lost, released, used>>

\* FirestoreClient::WaitForPendingWrites.
WaitForPendingWrites ==
    /\ used.waits < MaxWaits
    /\ used' = [used EXCEPT !.waits = @ + 1]
    /\ tasks' = Append(tasks, [task |-> "wait"])
    /\ UNCHANGED <<store, remote, authUser, history>>

\* The credential change listener: someone signs in or out, or the signed-in
\* user has a new token.
AuthStateChanges(u) ==
    /\ used.changes < MaxChanges
    /\ used' = [used EXCEPT !.changes = @ + 1]
    /\ authUser' = u
    /\ tasks' = Append(tasks, [task |-> "user", user |-> u])
    /\ UNCHANGED <<store, remote, history>>

\* GetToken answers with a token of the user of that moment: an answer for an
\* earlier one is noticed by its token_counter, and asked for again.
TokenArrives(fresh) ==
    /\ fresh \in remote.asked
    /\ remote' = [remote EXCEPT !.asked = @ \ {fresh}]
    /\ tasks' = Append(tasks, [task |-> "token", user |-> authUser, fresh |-> fresh])
    /\ UNCHANGED <<store, authUser, history, used>>

----------------------------------------------------------------------------
\* The tasks of the worker queue, oldest first.

\* The write is persisted, its callback filed (insert keeps what is there)
\* and the pipeline refilled.
WriteMutations ==
    /\ tasks # <<>> /\ Head(tasks).task = "write"
    /\ LET batch == [id |-> nextBatchId, write |-> Head(tasks).write]
           filed == {c.id : c \in callbacks[currentUser]}
       IN  /\ nextBatchId' = nextBatchId + 1
           /\ queue' = [queue EXCEPT ![currentUser] = Append(@, batch)]
           /\ callbacks' = [callbacks EXCEPT ![currentUser] =
                               IF batch.id \in filed THEN @ ELSE @ \cup {batch}]
           /\ accepted' = [accepted EXCEPT ![currentUser] = Append(@, batch.write)]
           /\ remote' = FillWritePipeline(remote, queue'[currentUser])
    /\ tasks' = Tail(tasks)
    /\ UNCHANGED <<currentUser, waits, authUser, issued, outcome, log, refused, lost, released, used>>

\* A callback is filed under the highest batch id of the user's queue, and
\* called at once when there is none.
RegisterPendingWritesCallback ==
    /\ tasks # <<>> /\ Head(tasks).task = "wait"
    /\ waits' = IF queue[currentUser] = <<>>
                THEN waits
                ELSE waits \cup {[id |-> Last(queue[currentUser]).id,
                                  writes |-> Pending(currentUser)]}
    /\ tasks' = Tail(tasks)
    /\ UNCHANGED <<queue, currentUser, nextBatchId, callbacks, remote, authUser, history, used>>

\* Mutant: the other user's queue is opened, and the stream kept.
HandleCredentialChangeInStore ==
    /\ tasks # <<>> /\ Head(tasks).task = "user"
    /\ currentUser' = Head(tasks).user
    /\ waits' = IF currentUser' # currentUser THEN {} ELSE waits
    /\ nextBatchId' = LoadNextBatchIdFromDb(queue)
    /\ remote' = FillWritePipeline([remote EXCEPT !.pipeline = <<>>], queue[currentUser'])
    /\ tasks' = Tail(tasks)
    /\ UNCHANGED <<queue, callbacks, authUser, history, used>>

\* SyncEngine::HandleCredentialChange: another user's mutation queue is
\* opened, and the streams restart whether the user is another one or not.
HandleCredentialChange ==
    /\ tasks # <<>> /\ Head(tasks).task = "user"
    /\ currentUser' = Head(tasks).user
    /\ IF currentUser' # currentUser
       THEN /\ waits' = {}
            /\ nextBatchId' = LoadNextBatchIdFromDb(queue)
       ELSE UNCHANGED <<waits, nextBatchId>>
    /\ IF remote.enabled
       THEN /\ remote' = RestartNetwork(remote, queue[currentUser'])
            /\ LoseAnswers
            /\ tasks' = Tail(IF IsStarted(remote) THEN StaleTokens ELSE tasks)
       ELSE /\ tasks' = Tail(tasks)
            /\ UNCHANGED <<remote, lost>>
    /\ UNCHANGED <<queue, callbacks, authUser, issued, accepted, outcome, log, refused, released, used>>

\* ResumeStartWithCredentials: if the close count of the stream is still the one
\* of the request, the call is opened and OnStreamStart sends the handshake.
ResumeStartWithCredentials ==
    /\ tasks # <<>> /\ Head(tasks).task = "token"
    /\ tasks' = Tail(tasks)
    /\ remote' = IF Head(tasks).fresh
                 THEN Write([remote EXCEPT !.state = "Open", !.token = Head(tasks).user],
                            <<Handshake>>)
                 ELSE remote
    /\ UNCHANGED <<store, authUser, history, used>>

\* The same with a token that could not be had.
TokenFails ==
    /\ Fault
    /\ tasks # <<>> /\ Head(tasks).task = "token" /\ Head(tasks).fresh
    /\ tasks' = Tail(StaleTokens)
    /\ remote' = CloseWithError(remote, Unavailable, queue[currentUser])
    /\ UNCHANGED <<store, authUser, history>>

\* The backoff delay is over.
BackoffElapses ==
    /\ remote.state = "Backoff"
    /\ remote' = Start([remote EXCEPT !.state = "Initial"])
    /\ UNCHANGED <<store, authUser, tasks, history, used>>

\* The stream was idle for kIdleTimeout.
IdleTimeout ==
    /\ remote.idle
    /\ remote' = Stop(remote)
    /\ tasks' = StaleTokens
    /\ LoseAnswers
    /\ UNCHANGED <<store, authUser, issued, accepted, outcome, log, refused, released, used>>

----------------------------------------------------------------------------
\* The backend, as the client sees it: it takes what a stream brings in order
\* until it ends the stream.

ServerHandshake ==
    /\ remote.status = "none" /\ remote.wire # <<>> /\ Head(remote.wire) = Handshake
    /\ remote' = [remote EXCEPT !.wire = Tail(@), !.answers = Append(@, Handshake)]
    /\ UNCHANGED <<store, authUser, tasks, history, used>>

ServerCommit ==
    /\ remote.status = "none" /\ remote.wire # <<>> /\ Head(remote.wire) # Handshake
    /\ remote' = [remote EXCEPT !.wire = Tail(@), !.answers = Append(@, Head(remote.wire))]
    /\ log' = Append(log, Head(remote.wire))
    /\ UNCHANGED <<store, authUser, tasks, issued, accepted, outcome, refused, lost, released, used>>

\* The write is refused for good, which ends the stream.
ServerRefuse ==
    /\ remote.status = "none" /\ remote.wire # <<>> /\ Head(remote.wire) # Handshake
    /\ remote' = [remote EXCEPT !.wire = Tail(@), !.status = Rejected]
    /\ refused' = refused \cup {Head(remote.wire)}
    /\ UNCHANGED <<store, authUser, tasks, issued, accepted, outcome, log, lost, released, used>>

\* The backend gives up a stream over contention, or refuses the handshake.
ServerGivesUp ==
    /\ Fault
    /\ remote.status = "none" /\ remote.wire # <<>>
    /\ remote' = [remote EXCEPT !.wire = Tail(@),
                                !.status = IF Head(remote.wire) = Handshake THEN Rejected ELSE Aborted]
    /\ UNCHANGED <<store, authUser, tasks, history>>

----------------------------------------------------------------------------
\* What comes back over the stream.

\* NotifyStreamResponse, first answer: the whole pipeline is sent.
OnWriteStreamHandshakeComplete ==
    /\ remote.answers # <<>> /\ ~remote.handshake
    /\ remote' = Write([remote EXCEPT !.handshake = TRUE, !.answers = Tail(@)],
                       WriteOf(remote.pipeline))
    /\ UNCHANGED <<store, authUser, tasks, history, used>>

\* NotifyStreamResponse, later answers: the front of the pipeline is settled.
OnWriteStreamMutationResult ==
    /\ remote.answers # <<>> /\ remote.handshake
    /\ HandleSettledWrite(Head(remote.pipeline), "ok")
    /\ remote' = FillWritePipeline([remote EXCEPT !.answers = Tail(@), !.pipeline = Tail(@)],
                                   queue'[currentUser])
    /\ UNCHANGED <<currentUser, nextBatchId, authUser, tasks, issued, accepted, log, refused, lost, used>>

\* OnWriteStreamClose for a stream that ends with an error.
StreamClosed(status) ==
    /\ LoseAnswers
    /\ tasks' = StaleTokens
    /\ IF HandleWriteError(remote, status)
       THEN HandleSettledWrite(Head(remote.pipeline), "rejected")
       ELSE UNCHANGED <<queue, callbacks, waits, outcome, released>>
    /\ remote' = CloseWithError(remote, status, queue'[currentUser])
    /\ UNCHANGED <<currentUser, nextBatchId, authUser, issued, accepted, log, refused>>

\* The status of the backend, once all answers are read; or at once, when a
\* write under way fails first: finishing the call then discards the reads.
OnStreamFinish ==
    /\ remote.status # "none"
    /\ remote.answers = <<>> \/ remote.wire # <<>>
    /\ StreamClosed(remote.status)
    /\ UNCHANGED used

\* The connection is lost.
StreamBreaks ==
    /\ Fault
    /\ IsOpen(remote)
    /\ StreamClosed(Unavailable)

----------------------------------------------------------------------------
\* What happens to the device.

\* The connectivity monitor reports that the network is gone or has changed:
\* the calls are finished, and when there is a network the streams restart.
ConnectivityChanges(available) ==
    /\ Fault
    /\ LET finished == IF IsOpen(remote)
                       THEN CloseWithError(remote, Unavailable, queue[currentUser])
                       ELSE remote
       IN  remote' = IF available /\ remote.enabled
                     THEN RestartNetwork(finished, queue[currentUser])
                     ELSE finished
    /\ tasks' = IF IsOpen(remote) \/ (available /\ remote.enabled /\ IsStarted(remote))
                THEN StaleTokens
                ELSE tasks
    /\ LoseAnswers
    /\ UNCHANGED <<store, authUser, issued, accepted, outcome, log, refused, released>>

\* FirestoreClient::DisableNetwork and EnableNetwork.
DisableNetwork ==
    /\ Fault
    /\ remote' = DisableNetworkInternal(remote)
    /\ tasks' = IF IsStarted(remote) THEN StaleTokens ELSE tasks
    /\ LoseAnswers
    /\ UNCHANGED <<store, authUser, issued, accepted, outcome, log, refused, released>>

ReenableNetwork ==
    /\ ~remote.enabled
    /\ remote' = EnableNetwork(remote, queue[currentUser])
    /\ UNCHANGED <<store, authUser, tasks, history, used>>

\* The application is killed and started again, with the queues it persisted
\* and FirebaseAuth's user; whoever waited for an answer is gone.
Restart ==
    /\ Fault
    /\ currentUser' = authUser
    /\ nextBatchId' = LoadNextBatchIdFromDb(queue)
    /\ callbacks' = [u \in Users |-> {}]
    /\ waits' = {}
    /\ remote' = EnableNetwork(Fresh, queue[authUser])
    /\ tasks' = <<>>
    /\ LoseAnswers
    /\ released' = {}
    /\ UNCHANGED <<queue, authUser, issued, accepted, log, refused>>

Kill == Restart /\ UNCHANGED outcome

\* The same after the caller was told of the success of its write, and before
\* the batch is out of the queue: HandleSuccessfulWrite notifies first.
KillInAcknowledge ==
    /\ remote.answers # <<>> /\ remote.handshake
    /\ Restart
    /\ outcome' = [w \in Writes |->
                      IF [id |-> Head(remote.pipeline).id, write |-> w] \in callbacks[currentUser]
                      THEN "ok" ELSE outcome[w]]

----------------------------------------------------------------------------
Client ==
    \/ WriteMutations
    \/ RegisterPendingWritesCallback
    \/ HandleCredentialChange
    \/ ResumeStartWithCredentials
    \/ BackoffElapses
    \/ OnWriteStreamHandshakeComplete
    \/ OnWriteStreamMutationResult
    \/ OnStreamFinish

Server == ServerHandshake \/ ServerCommit \/ ServerRefuse

Device ==
    \/ IssueWrite
    \/ WaitForPendingWrites
    \/ \E u \in Users : AuthStateChanges(u)
    \/ \E fresh \in BOOLEAN : TokenArrives(fresh)
    \/ IdleTimeout
    \/ ServerGivesUp
    \/ TokenFails
    \/ StreamBreaks
    \/ \E available \in BOOLEAN : ConnectivityChanges(available)
    \/ DisableNetwork
    \/ ReenableNetwork
    \/ Kill
    \/ KillInAcknowledge

Next == Client \/ Server \/ Device

Spec == Init /\ [][Next]_vars

\* The worker queue runs its tasks, a timer that is set expires, FirebaseAuth
\* answers every request for a token, and the backend takes what a stream
\* that stays up brings it.
Fairness ==
    /\ WF_vars(Client)
    /\ WF_vars(Server)
    /\ WF_vars(TokenArrives(TRUE))
    /\ WF_vars(ReenableNetwork)

FairSpec == Spec /\ Fairness

----------------------------------------------------------------------------
\* The pipeline is exactly the oldest batches of the signed-in user's queue,
\* as many as it may hold, after every write, answer, refusal, change of user
\* and restart; while the network is disabled it is empty.  And the idle timer
\* runs only over an open stream with an empty pipeline: its Stop would
\* otherwise meet the assertion of OnWriteStreamClose that a stream is not
\* stopped gracefully while still needed.
PipelineIsFront ==
    LET mine == queue[currentUser]
    IN  /\ remote.pipeline = IF remote.enabled
                             THEN SubSeq(mine, 1, Min({MaxPendingWrites, Len(mine)}))
                             ELSE <<>>
        /\ remote.idle => IsOpen(remote) /\ remote.pipeline = <<>>

\* Answers carry no identity, so OnWriteStreamMutationResult is right only
\* because the answers not yet read, and the batches the server has not yet
\* taken, always line up with the pipeline.
AnswersLineUp ==
    LET sent == WriteOf(remote.pipeline)
        gone == IF remote.status = "none" THEN 0 ELSE 1
    IN  (IsOpen(remote) /\ remote.handshake) =>
            /\ IsPrefix(remote.answers, sent)
            /\ IsSuffix(remote.wire, sent)
            /\ Len(remote.answers) + gone + Len(remote.wire) = Len(sent)

\* A stream carries a token of the user whose queue it sends: no batch goes
\* out under the name of the user who signed in after it was issued, nor
\* does one stay in the queue of another user.
OwnName ==
    /\ IsOpen(remote) => remote.token = currentUser
    /\ \A u \in Users : \A w \in Pending(u) : issued[w] = u

\* Batch ids grow along every queue although they are used again, and the
\* callbacks filed under them, those of waitForPendingWrites too, are for
\* batches still queued: an answer never reaches the caller of another write,
\* insert never finds its place taken, and a wait neither answers for a write
\* still in the queue nor is forgotten.
CallbacksMatch ==
    /\ \A u \in Users :
          /\ \A i, j \in DOMAIN queue[u] : i < j => queue[u][i].id < queue[u][j].id
          /\ callbacks[u] \subseteq Range(queue[u])
          /\ Pending(u) \cap released = {}
    /\ \A x \in waits : x.id \in {b.id : b \in Range(queue[currentUser])}

\* A caller is told of success only for a write that was applied, and of a
\* failure only for one that was refused, unless its answer was lost.
TruthfulAnswers ==
    \A w \in Writes :
        /\ outcome[w] = "ok" => w \in Range(log)
        /\ outcome[w] = "rejected" => w \in (refused \ Range(log)) \cup lost

\* A write is applied twice, which adds an increment twice, only when the
\* answer to it was lost with its stream or its application.
OnceUnlessLost ==
    \A i, j \in DOMAIN log : i # j /\ log[i] = log[j] => log[i] \in lost

\* The writes of whoever is signed in all get their answer in the end.
EventuallySettled == []<>(queue[currentUser] = <<>> /\ tasks = <<>>)

Answered(u) == Len(accepted[u]) - Len(queue[u])

\* Before the handshake is complete, its own answer is all there is to read.
UnreadCommits == IF remote.handshake THEN Len(remote.answers) ELSE 0

Promise ==
    INSTANCE WriteLog WITH
        settled <- [u \in Users |-> Answered(u)],
        next <- [u \in Users |-> Answered(u) + IF u = currentUser THEN UnreadCommits ELSE 0]

\* The client and the backend together keep the promise of WriteLog: the
\* writes of a user are applied and answered in order, and only a lost answer
\* takes the server back.
KeepsOrder == Promise!Spec

=============================================================================
