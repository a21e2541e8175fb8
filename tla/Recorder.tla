------------------------------ MODULE Recorder ------------------------------
(***************************************************************************)
(* The dashboard's recorder (serve/recorder.rs) with the runtime settings  *)
(* it writes (serve/runtime.rs): the channel that finished requests' rows, *)
(* settings changes and the stop go through, the one thread that opens the *)
(* database, writes rows (a failed batch once more with the next), makes   *)
(* changes (planned, committed, published, answered), and the HTTP threads *)
(* that give up waiting.  Rows are counted; there is one setting.  Minute  *)
(* rollups, samples and pruning are left out: they only add rows.          *)
(***************************************************************************)
EXTENDS Integers, Sequences, FiniteSets, SequencesExt

CONSTANTS ChannelRoom,  \* ROW_CHANNEL
          BatchRows,    \* BATCH_ROWS
          Traffic,      \* bound: rows offered and changes asked for
          HttpThreads,  \* the changes asked for, one per HTTP thread
          SettingValues,\* the values the checks let through
          Misfortunes   \* bound: opens and writes that fail

NoRow == "no row"       \* no row, no override
Stale == "stale row"    \* a row this lily ignores and keeps

ASSUME RecorderAssumption ==
    /\ {ChannelRoom, BatchRows} \subseteq Nat \ {0} /\ BatchRows <= ChannelRoom
    /\ {Traffic, Misfortunes} \subseteq Nat
    /\ IsFiniteSet(HttpThreads) /\ HttpThreads \cap {"row", "stop", NoRow} = {}
    /\ SettingValues # {} /\ SettingValues \cap {NoRow, Stale} = {}

Flag  == CHOOSE v \in SettingValues : TRUE   \* the command line's value
Wishes == {[set |-> TRUE, value |-> v] : v \in SettingValues} \cup {[set |-> FALSE, value |-> NoRow]}

VARIABLES
    mail,         \* the channel: "row", "stop" or an HTTP thread
    offered, stored, dropped, lost,   \* rows: offered, in the database, counted, neither
    waiting,      \* rows received while the database does not open, or a batch
    retry,        \* rows of the batch that failed once
    changes,      \* settings changes received
    stopping,     \* a stop was received
    rec_at,       \* the thread
    making, plan, \* the change being made, and its plan
    rec_phase, unreadable,   \* Health: the phase; the settings could not be read
    row, override,   \* the setting's row in the database; its override in effect
    http, claim, reply,   \* per HTTP thread
    made,         \* history: changes committed
    misfortunes

rowVars      == <<offered, stored, dropped, lost, waiting, retry>>
threadVars   == <<changes, stopping, rec_at, making, plan>>
healthVars   == <<rec_phase, unreadable>>
settingVars  == <<row, override>>
httpVars     == <<http, claim, reply>>
recorderVars == <<mail, rowVars, threadVars, healthVars, settingVars, httpVars, made, misfortunes>>

(* The thread has just started, over whatever database the processes       *)
(* before left, one that crashed after any commit included.                *)
RecInit ==
    /\ mail = <<>> /\ offered = 0 /\ stored = 0 /\ dropped = 0 /\ lost = 0 /\ waiting = 0 /\ retry = 0
    /\ changes = <<>> /\ stopping = FALSE /\ rec_at = "opening" /\ making = NoRow /\ plan = NoRow
    /\ rec_phase = "opening" /\ unreadable = FALSE
    /\ override = NoRow /\ row \in {NoRow, Stale} \cup SettingValues
    /\ http = [h \in HttpThreads |-> "idle"]
    /\ claim = [h \in HttpThreads |-> "pending"] /\ reply = [h \in HttpThreads |-> "none"]
    /\ made = {} /\ misfortunes = 0

QueuedRows == Cardinality({i \in DOMAIN mail : mail[i] = "row"})

MoreTraffic == offered + Cardinality({h \in HttpThreads : http[h] # "idle"}) < Traffic
Fails == misfortunes < Misfortunes /\ misfortunes' = misfortunes + 1
-----------------------------------------------------------------------------
(* RowSink::send: never blocks; a full or closed channel counts a drop.  A *)
(* row sent once the queued ones were counted is never looked at.          *)
OfferRow ==
    /\ MoreTraffic /\ offered' = offered + 1
    /\ IF rec_at = "gone" \/ Len(mail) >= ChannelRoom
       THEN dropped' = dropped + 1 /\ UNCHANGED <<mail, lost>>
       ELSE IF rec_at = "counted" THEN lost' = lost + 1 /\ UNCHANGED <<mail, dropped>>
       ELSE mail' = Append(mail, "row") /\ UNCHANGED <<dropped, lost>>
    /\ UNCHANGED <<stored, waiting, retry, threadVars, healthVars, settingVars, httpVars, made, misfortunes>>

(* finish: the stop is sent once there is room.                            *)
SendStop ==
    /\ ~stopping /\ "stop" \notin Range(mail) /\ rec_at # "gone" /\ Len(mail) < ChannelRoom
    /\ mail' = IF rec_at = "counted" THEN mail ELSE Append(mail, "stop")
    /\ UNCHANGED <<rowVars, threadVars, healthVars, settingVars, httpVars, made, misfortunes>>

(* change_settings on an HTTP thread: the phase looked at, the change sent,*)
(* then the answer or, the time being up, the claim.                       *)
Http(h, from, to) == http[h] = from /\ http' = [http EXCEPT ![h] = to]

AskPhase(h) ==
    /\ MoreTraffic /\ Http(h, "idle", IF rec_phase = "open" /\ ~unreadable THEN "send" ELSE "not made")
    /\ UNCHANGED <<mail, claim, reply>>

SendChange(h) ==
    /\ Http(h, "send", IF rec_at = "gone" \/ Len(mail) >= ChannelRoom THEN "not made" ELSE "await")
    /\ mail' = IF http'[h] = "await" /\ rec_at # "counted" THEN Append(mail, h) ELSE mail
    /\ UNCHANGED <<claim, reply>>

(* The answer, nobody taking it once its thread has given up.              *)
Replies(h, answer) == reply' = IF http[h] = "await" THEN [reply EXCEPT ![h] = answer] ELSE reply

Unreachable(h) == h \notin Range(mail) \cup Range(changes) /\ making # h

Answered(h) ==
    /\ \/ reply[h] # "none" /\ Http(h, "await", reply[h])
       \/ reply[h] = "none" /\ Unreachable(h) /\ Http(h, "await", "not made")   \* the reply's sender is gone
    /\ UNCHANGED <<mail, claim, reply>>

TimesOut(h) ==
    /\ reply[h] = "none"
    /\ IF claim[h] = "pending"
       THEN Http(h, "await", "not made") /\ claim' = [claim EXCEPT ![h] = "abandoned"]
       ELSE Http(h, "await", "unknown") /\ UNCHANGED claim
    /\ UNCHANGED <<mail, reply>>

HttpThread(h) ==
    /\ AskPhase(h) \/ SendChange(h) \/ Answered(h) \/ TimesOut(h)
    /\ UNCHANGED <<rowVars, threadVars, healthVars, settingVars, made, misfortunes>>
-----------------------------------------------------------------------------
(* The thread opens the database.  Before it says `open` the stored row is *)
(* applied (one this lily cannot use is kept and ignored), unless reading  *)
(* it fails twice.                                                         *)
OpenSucceeds ==
    /\ rec_at = "opening" /\ rec_at' = "opened"
    /\ \/ override' = (IF row \in SettingValues THEN row ELSE NoRow) /\ UNCHANGED <<unreadable, misfortunes>>
       \/ Fails /\ unreadable' = TRUE /\ UNCHANGED override
    /\ UNCHANGED <<mail, rowVars, changes, stopping, making, plan, rec_phase, row, httpVars, made>>

SayOpen ==
    /\ rec_at = "opened" /\ rec_phase' = "open" /\ rec_at' = "write"
    /\ UNCHANGED <<mail, rowVars, changes, stopping, making, plan, unreadable, settingVars, httpVars, made,
                   misfortunes>>

OpenFails ==
    /\ rec_at = "opening" /\ Fails /\ rec_at' = "backoff"
    /\ UNCHANGED <<mail, rowVars, changes, stopping, making, plan, rec_phase, unreadable, settingVars, httpVars,
                   made>>

(* A newer schema.                                                         *)
OpenRefused ==
    /\ rec_at = "opening" /\ Fails /\ rec_at' = "ending" /\ rec_phase' = "failed"
    /\ dropped' = dropped + waiting /\ waiting' = 0
    /\ UNCHANGED <<mail, offered, stored, lost, retry, changes, stopping, making, plan, unreadable, settingVars,
                   httpVars, made>>

(* receive and take: one message; past the cap a row is dropped.  (What it *)
(* refuses while the database is not open nobody can have sent: HTTP       *)
(* threads look at the phase first.)                                       *)
Take(cap) ==
    LET msg == Head(mail) IN
    /\ mail # <<>> /\ mail' = Tail(mail)
    /\ waiting' = IF msg = "row" /\ waiting < cap THEN waiting + 1 ELSE waiting
    /\ dropped' = IF msg = "row" /\ waiting >= cap THEN dropped + 1 ELSE dropped
    /\ changes' = IF msg \in HttpThreads THEN Append(changes, msg) ELSE changes
    /\ stopping' = (stopping \/ msg = "stop")
    /\ UNCHANGED <<offered, stored, lost, retry, making, plan, healthVars, settingVars, httpVars, made, misfortunes>>

Backoff ==
    \/ /\ rec_at = "backoff" /\ ~stopping
       /\ Take(ChannelRoom) /\ UNCHANGED rec_at
    \/ /\ rec_at = "backoff" /\ ~stopping /\ rec_at' = "opening"   \* the wait is over
       /\ UNCHANGED <<mail, rowVars, changes, stopping, making, plan, healthVars, settingVars, httpVars, made,
                      misfortunes>>
    \/ /\ rec_at = "backoff" /\ stopping /\ rec_at' = "ending"
       /\ dropped' = dropped + waiting /\ waiting' = 0
       /\ UNCHANGED <<mail, offered, stored, lost, retry, changes, stopping, making, plan, healthVars, settingVars,
                      httpVars, made, misfortunes>>

Receive ==
    \/ rec_at \in {"receive", "more"} /\ Take(BatchRows)
       /\ rec_at' = IF stopping' \/ waiting' = BatchRows THEN "write" ELSE "more"
    \/ /\ \/ rec_at = "more" /\ mail = <<>>
          \/ rec_at = "receive"              \* a sample or the prune is due
       /\ rec_at' = "write"
       /\ UNCHANGED <<mail, rowVars, changes, stopping, making, plan, healthVars, settingVars, httpVars, made,
                      misfortunes>>

(* Writer::record: the batch that failed first, given up if it fails once  *)
(* more; then the new one, kept if it fails.  A row SQLite refuses is      *)
(* counted and the others stored.                                          *)
Written(n) ==
    \/ stored' = stored + n /\ UNCHANGED <<dropped, misfortunes>>
    \/ n > 0 /\ Fails /\ stored' = stored + n - 1 /\ dropped' = dropped + 1

WriteRetry(to) ==
    /\ retry' = 0 /\ rec_at' = to
    /\ \/ Written(retry)
       \/ retry > 0 /\ Fails /\ dropped' = dropped + retry /\ UNCHANGED stored
    /\ UNCHANGED <<mail, offered, lost, waiting, changes, stopping, making, plan, healthVars, settingVars, httpVars,
                   made>>

WriteOld == rec_at = "write" /\ waiting > 0 /\ WriteRetry("new")

WriteNew ==
    /\ rec_at = "new" /\ rec_at' = "changes" /\ waiting' = 0
    /\ \/ Written(waiting) /\ UNCHANGED retry
       \/ Fails /\ retry' = waiting /\ UNCHANGED <<stored, dropped>>
    /\ UNCHANGED <<mail, offered, lost, changes, stopping, making, plan, healthVars, settingVars, httpVars, made>>

NothingNew ==
    /\ rec_at = "write" /\ waiting = 0 /\ rec_at' = "changes"
    /\ UNCHANGED <<mail, rowVars, changes, stopping, making, plan, healthVars, settingVars, httpVars, made,
                   misfortunes>>
-----------------------------------------------------------------------------
(* change_settings on the thread: only a change its sender has not given   *)
(* up.  What it asks for is first looked at here, so it is chosen here.    *)
InEffect == IF override = NoRow THEN Flag ELSE override

(* plan: the value in effect already changes nothing; a reset deletes the  *)
(* row also when it was not in effect.                                     *)
Planned(w) ==
    CASE ~w.set -> [writes |-> TRUE, row |-> NoRow, override |-> NoRow]
      [] w.set /\ w.value = InEffect -> [writes |-> FALSE, row |-> row, override |-> override]
      [] OTHER -> [writes |-> TRUE, row |-> w.value, override |-> w.value]

(* As it would be if the claim were not looked at.                         *)
TakesAny(h) == TRUE

Takes(h) == claim[h] = "pending"

ChangeNext ==
    /\ rec_at = "changes" /\ changes # <<>> /\ changes' = Tail(changes)
    /\ LET h == Head(changes) IN
         IF Takes(h)
         THEN /\ claim' = [claim EXCEPT ![h] = "taken"] /\ making' = h /\ \E w \in Wishes : plan' = Planned(w)
              /\ rec_at' = "commit"
         ELSE UNCHANGED <<claim, making, plan, rec_at>>
    /\ UNCHANGED <<mail, rowVars, stopping, healthVars, settingVars, http, reply, made, misfortunes>>

CommitChange ==
    /\ rec_at = "commit"
    /\ \/ /\ row' = plan.row /\ made' = made \cup {making} /\ rec_at' = "publish"
          /\ UNCHANGED <<making, plan, reply, misfortunes>>
       \/ /\ plan.writes /\ Fails /\ Replies(making, "not made")
          /\ making' = NoRow /\ plan' = NoRow /\ rec_at' = "changes" /\ UNCHANGED <<row, made>>
    /\ UNCHANGED <<mail, rowVars, changes, stopping, healthVars, override, http, claim>>

PublishChange ==
    /\ rec_at = "publish" /\ override' = plan.override /\ Replies(making, "made")
    /\ making' = NoRow /\ plan' = NoRow /\ rec_at' = "changes"
    /\ UNCHANGED <<mail, rowVars, changes, stopping, healthVars, row, http, claim, made, misfortunes>>

(* As it would be if a stop that came with a batch were forgotten.         *)
OnwardForgets == {"receive", "close"}

(* The loop again; out of it on a stop, or when the board is gone.         *)
Onward == IF stopping THEN {"close"} ELSE {"receive", "close"}

LoopAgain ==
    /\ rec_at = "changes" /\ changes = <<>> /\ rec_at' \in Onward
    /\ UNCHANGED <<mail, rowVars, changes, stopping, making, plan, healthVars, settingVars, httpVars, made,
                   misfortunes>>

Close == rec_at = "close" /\ WriteRetry("ending")

(* run's end: the rows still queued counted, then the phase, the channel.  *)
CountQueued ==
    /\ rec_at = "ending" /\ rec_at' = "counted" /\ mail' = <<>>
    /\ dropped' = dropped + QueuedRows
    /\ UNCHANGED <<offered, stored, lost, waiting, retry, changes, stopping, making, plan, healthVars, settingVars,
                   httpVars, made, misfortunes>>

End ==
    /\ rec_at = "counted" /\ rec_at' = "gone" /\ rec_phase' = "failed" /\ changes' = <<>>
    /\ UNCHANGED <<mail, rowVars, stopping, making, plan, unreadable, settingVars, httpVars, made,
                   misfortunes>>

RecorderThread ==
    \/ OpenSucceeds \/ SayOpen \/ OpenFails \/ OpenRefused \/ Backoff
    \/ Receive \/ WriteOld \/ WriteNew \/ NothingNew
    \/ ChangeNext \/ CommitChange \/ PublishChange \/ LoopAgain \/ Close \/ CountQueued \/ End

RecorderNext ==
    \/ OfferRow \/ SendStop \/ \E h \in HttpThreads : HttpThread(h)
    \/ RecorderThread

RecorderSpec ==
    /\ RecInit /\ [][RecorderNext]_recorderVars /\ WF_recorderVars(RecorderThread)
    /\ \A h \in HttpThreads : WF_recorderVars(HttpThread(h))
-----------------------------------------------------------------------------
Settled    == stored + dropped + lost
OnTheirWay == waiting + retry + QueuedRows

(* Every row offered is stored, or counted as dropped, or still on its     *)
(* way; only one sent in the thread's last moment is lost.                 *)
RowsAccounted == offered = Settled + OnTheirWay

(* An answer is true: a change answered as not made was not and will not   *)
(* be, however late the thread takes it up; one answered as made was       *)
(* committed.                                                              *)
AnswersTrue ==
    \A h \in HttpThreads : /\ http[h] = "not made" => h \notin made /\ making # h
                           /\ http[h] = "made" => h \in made

(* What the server does and what the database says never disagree, across  *)
(* failed writes and crashes: only between a commit and its publication,   *)
(* and when the overrides could not be read (then no change is made).      *)
NeverDisagree ==
    /\ rec_phase = "open" /\ ~unreadable /\ rec_at # "publish" =>
         override = IF row \in SettingValues THEN row ELSE NoRow
    /\ unreadable => rec_at # "publish"

(* What the dashboard and the settings page are told is so (Writer,        *)
(* change_settings, Claim).                                                *)
RecorderSafe == RowsAccounted /\ AnswersTrue /\ NeverDisagree

(* Once it is asked to stop the thread ends, with every row accounted for. *)
RecorderStops == []<>(stopping => rec_at = "gone")

=============================================================================
