---------------------------- MODULE EdgesProofs ----------------------------
(***************************************************************************)
(* Safety of the scheduled triggers, the menus and replies of a chat, the  *)
(* incoming messages, the membership of chats and the tables of the        *)
(* university, for any number of replicas, goroutines, handlers, messages, *)
(* events, failures, reloads and restarts, and of persons, nodes and       *)
(* transactions.                                                           *)
(***************************************************************************)
EXTENDS CronTriggers, ChannelSend, ChatInbox, ChatMembers, University, Integers, SequenceTheorems, FiniteSetTheorems, TLAPS

(* A set without two different elements has at most one. *)
LEMMA AtMostOne ==
  ASSUME NEW S, \A x, y \in S : x = y
  PROVE  Cardinality(S) <= 1
  <1>1. CASE S = {}
    BY <1>1, FS_EmptySet
  <1>2. CASE S # {}
    <2> PICK x \in S : TRUE
      BY <1>2
    <2>1. S = {x}
      OBVIOUS
    <2> QED
      BY <2>1, FS_Singleton
  <1> QED
    BY <1>1, <1>2

-----------------------------------------------------------------------------
(* Scheduled triggers.                                                     *)

FirePcs == {"none", "due", "skipped", "lock", "run", "done"}

Fire == [pc : FirePcs, at : Nat, ran : BOOLEAN]

CronTypeOK ==
    /\ minute \in Nat
    /\ tick \in Nat
    /\ flag \in [CronReplicas -> BOOLEAN]
    /\ fires \in [CronReplicas -> [Ticks -> Fire]]

(* Goroutines exist for past ticks, and one has run the trigger once it    *)
(* got the lock, and not before.                                           *)
RanAfterLock ==
    \A r \in CronReplicas, t \in Ticks :
        /\ t > tick => fires[r][t].pc = "none"
        /\ fires[r][t].ran <=> fires[r][t].pc \in {"run", "done"}

(* In a minute without failures of Redis, whoever ran set the key, and     *)
(* nobody else ran.                                                        *)
RunsHoldKey ==
    \A r \in CronReplicas, t \in Ticks :
        fires[r][t].ran /\ fires[r][t].at \notin openMinutes =>
            /\ fires[r][t].at \in cronLocks
            /\ \A q \in CronReplicas, u \in Ticks :
                  fires[q][u].ran /\ fires[q][u].at = fires[r][t].at => q = r /\ u = t

(* A run in progress holds its replica's flag, alone, unless a reload      *)
(* dropped the flag.                                                       *)
RunsHoldFlag ==
    \A r \in CronReplicas \ reloaded : \A t \in Ticks :
        fires[r][t].pc \in {"lock", "run"} =>
            /\ flag[r]
            /\ \A u \in Ticks : fires[r][u].pc \in {"lock", "run"} => u = t

CronInv == CronTypeOK /\ RanAfterLock /\ RunsHoldKey /\ RunsHoldFlag

LEMMA CronInitInv == CronInit => CronInv
  BY CronAssumption DEF CronInit, CronInv, CronTypeOK, RanAfterLock, RunsHoldKey, RunsHoldFlag,
                        Ticks, NoFire, FirePcs, Fire

(* What a step of the goroutine of tick t on replica r leaves alone.       *)
Only(r, t) ==
    /\ fires' \in [CronReplicas -> [Ticks -> Fire]]
    /\ \A q \in CronReplicas, u \in Ticks : q # r \/ u # t => fires'[q][u] = fires[q][u]

LEMMA OnlyPc ==
  ASSUME CronTypeOK, NEW r \in CronReplicas, NEW t \in Ticks, NEW pc \in FirePcs,
         fires' = [fires EXCEPT ![r][t].pc = pc]
  PROVE  /\ Only(r, t) /\ fires'[r][t].pc = pc
         /\ fires'[r][t].ran <=> fires[r][t].ran
         /\ fires'[r][t].at = fires[r][t].at
  <1>1. fires \in [CronReplicas -> [Ticks -> Fire]] /\ fires[r][t] \in Fire
    BY DEF CronTypeOK
  <1>2. /\ [fires[r][t] EXCEPT !.pc = pc] \in Fire
        /\ [fires[r][t] EXCEPT !.pc = pc].ran = fires[r][t].ran
    BY <1>1 DEF Fire
  <1>3. fires' = [fires EXCEPT ![r] = [fires[r] EXCEPT ![t] = [fires[r][t] EXCEPT !.pc = pc]]]
    OBVIOUS
  <1>4. fires'[r][t] = [fires[r][t] EXCEPT !.pc = pc]
    BY <1>1, <1>3
  <1>5. Only(r, t)
    BY <1>1, <1>2, <1>3 DEF Only
  <1> QED
    BY <1>1, <1>2, <1>4, <1>5 DEF Fire

(* Every step of the schedule preserves the invariant. *)
LEMMA CronNextInv ==
  ASSUME CronInv, [CronNext]_cronVars
  PROVE  CronInv'
  <1> USE CronAssumption DEF CronInv, CronTypeOK, Rest
  <1>1. CASE MinutePasses
    <2> USE <1>1 DEF MinutePasses
    <2>1. CronTypeOK'
      OBVIOUS
    <2>2. RanAfterLock'
      BY DEF RanAfterLock
    <2>3. RunsHoldKey'
      BY DEF RunsHoldKey, RanAfterLock
    <2>4. RunsHoldFlag'
      BY DEF RunsHoldFlag, RanAfterLock
    <2> QED
      BY <2>1, <2>2, <2>3, <2>4 DEF CronInv
  <1>2. CASE ScheduleTicks
    <2>0. \A r \in CronReplicas, t \in Ticks :
             t > tick => fires[r][t].pc = "none" /\ ~fires[r][t].ran
      BY DEF RanAfterLock
    <2> USE <1>2 DEF ScheduleTicks
    <2>1. tick + 1 \in Ticks /\ tick' = tick + 1
      BY DEF Ticks
    <2>2. ASSUME NEW r \in CronReplicas
          PROVE  /\ fires'[r] \in [Ticks -> Fire]
                 /\ \A t \in Ticks : t # tick + 1 => fires'[r][t] = fires[r][t]
                 /\ fires'[r][tick + 1].pc \in {"none", "due"}
                 /\ ~fires'[r][tick + 1].ran
      <3> USE DEF Ticks
      <3>1. fires[r] \in [Ticks -> Fire] /\ fires[r][tick + 1] \in Fire
        BY <2>1
      <3>2. fires[r][tick + 1].pc = "none" /\ ~fires[r][tick + 1].ran
        BY <2>0, <2>1
      <3>3. CASE fires'[r] = fires[r]
        BY <2>1, <3>1, <3>2, <3>3
      <3>4. CASE fires'[r] = [fires[r] EXCEPT ![tick + 1].pc = "due"]
        BY <2>1, <3>1, <3>2, <3>4 DEF Fire, FirePcs
      <3> QED
        BY <3>3, <3>4, <2>1
    <2>3. fires' \in [CronReplicas -> [Ticks -> Fire]]
      BY <2>2
    <2>4. CronTypeOK'
      BY <2>3
    <2>5. RanAfterLock'
      BY <2>1, <2>2 DEF RanAfterLock, Ticks
    <2>6. RunsHoldKey'
      BY <2>1, <2>2 DEF RunsHoldKey
    <2>7. RunsHoldFlag'
      BY <2>1, <2>2 DEF RunsHoldFlag
    <2> QED
      BY <2>4, <2>5, <2>6, <2>7
  <1>3. ASSUME NEW r \in CronReplicas, UnregisterTriggers(r)
        PROVE  CronInv'
    <2> USE <1>3 DEF UnregisterTriggers, RemoveAll
    <2>1. CronTypeOK'
      OBVIOUS
    <2>2. RanAfterLock'
      BY DEF RanAfterLock
    <2>3. RunsHoldKey'
      BY DEF RunsHoldKey, RanAfterLock
    <2>4. RunsHoldFlag'
      BY DEF RunsHoldFlag, RanAfterLock
    <2> QED
      BY <2>1, <2>2, <2>3, <2>4 DEF CronInv
  <1>4. ASSUME NEW r \in CronReplicas, RegisterTriggers(r)
        PROVE  CronInv'
    <2> USE <1>4 DEF RegisterTriggers
    <2>1. CronTypeOK'
      OBVIOUS
    <2>2. RanAfterLock'
      BY DEF RanAfterLock
    <2>3. RunsHoldKey'
      BY DEF RunsHoldKey, RanAfterLock
    <2>4. RunsHoldFlag'
      BY DEF RunsHoldFlag, RanAfterLock
    <2> QED
      BY <2>1, <2>2, <2>3, <2>4 DEF CronInv
  <1>5. ASSUME NEW r \in CronReplicas, NEW t \in Ticks, FireTrigger(r, t)
        PROVE  CronInv'
    <2> USE <1>5 DEF FireTrigger
    <2>1. CASE fires' = [fires EXCEPT ![r][t].pc = "skipped"] /\ flag' = flag
      <3> USE <2>1
      <3>0. Only(r, t) /\ fires'[r][t].pc = "skipped" /\ (fires'[r][t].ran <=> fires[r][t].ran)
        BY OnlyPc DEF FirePcs
      <3>1. CronTypeOK'
        BY <3>0 DEF Only, Fire
      <3>2. RanAfterLock'
        BY <3>0 DEF Only, RanAfterLock
      <3>3. RunsHoldKey'
        BY <3>0 DEF Only, RunsHoldKey, RanAfterLock
      <3>4. RunsHoldFlag'
        BY <3>0 DEF Only, RunsHoldFlag, RanAfterLock
      <3> QED
        BY <3>1, <3>2, <3>3, <3>4 DEF CronInv
    <2>2. CASE /\ ~flag[r]
               /\ flag' = [flag EXCEPT ![r] = TRUE]
               /\ fires' = [fires EXCEPT ![r][t] = [pc |-> "lock", at |-> minute, ran |-> FALSE]]
      <3> USE <2>2
      <3>0. Only(r, t) /\ fires'[r][t].pc = "lock" /\ ~fires'[r][t].ran
        BY DEF Only, Fire, FirePcs
      <3>1. CronTypeOK'
        BY <3>0 DEF Only, Fire
      <3>2. RanAfterLock'
        BY <3>0 DEF Only, RanAfterLock
      <3>3. RunsHoldKey'
        BY <3>0 DEF Only, RunsHoldKey, RanAfterLock
      <3>4. RunsHoldFlag'
        BY <3>0 DEF Only, RunsHoldFlag, RanAfterLock
      <3> QED
        BY <3>1, <3>2, <3>3, <3>4 DEF CronInv
    <2> QED
      BY <2>1, <2>2
  <1>6. ASSUME NEW r \in CronReplicas, NEW t \in Ticks, fires[r][t].pc \in {"lock", "run"},
               NEW pc \in {"skipped", "done"}, pc = "done" <=> fires[r][t].pc = "run",
               Ends(r, t, pc), UNCHANGED <<cronLocks, openMinutes, Rest>>
        PROVE  CronInv'
    <2> USE <1>6 DEF Ends
    <2>0. Only(r, t) /\ fires'[r][t].pc = pc /\ (fires'[r][t].ran <=> fires[r][t].ran) /\ fires'[r][t].at = fires[r][t].at
      BY OnlyPc, ZenonT(30) DEF FirePcs
    <2>1. CronTypeOK'
      BY <2>0 DEF Only, Fire
    <2>2. RanAfterLock'
      BY <2>0 DEF Only, RanAfterLock
    <2>3. RunsHoldKey'
      BY <2>0 DEF Only, RunsHoldKey, RanAfterLock
    <2>4. RunsHoldFlag'
      BY <2>0 DEF Only, RunsHoldFlag, RanAfterLock
    <2> QED
      BY <2>1, <2>2, <2>3, <2>4 DEF CronInv
  <1>7. ASSUME NEW r \in CronReplicas, NEW t \in Ticks, TryLock(r, t)
        PROVE  CronInv'
    <2> USE <1>7 DEF TryLock
    <2>0. fires[r][t] \in Fire
      OBVIOUS
    <2>1. ASSUME fires' = [fires EXCEPT ![r][t].pc = "run", ![r][t].ran = TRUE]
          PROVE  /\ Only(r, t) /\ fires'[r][t].pc = "run" /\ fires'[r][t].ran
                 /\ fires'[r][t].at = fires[r][t].at
      BY <2>0, <2>1 DEF Only, Fire, FirePcs
    <2>3. CASE /\ LockKey(r, t) \notin cronLocks
               /\ cronLocks' = cronLocks \cup {LockKey(r, t)}
               /\ fires' = [fires EXCEPT ![r][t].pc = "run", ![r][t].ran = TRUE]
               /\ UNCHANGED <<flag, reloaded, openMinutes>>
      <3> USE <2>3
      <3>1. CronTypeOK'
        BY <2>1 DEF Only, LockKey, Fire
      <3>2. RanAfterLock'
        BY <2>1, SMTT(30) DEF Only, LockKey, RanAfterLock
      <3>3. RunsHoldKey'
        BY <2>1 DEF Only, LockKey, RunsHoldKey, RanAfterLock
      <3>4. RunsHoldFlag'
        BY <2>1 DEF Only, LockKey, RunsHoldFlag, RanAfterLock
      <3> QED
        BY <3>1, <3>2, <3>3, <3>4 DEF CronInv
    <2>4. CASE /\ openMinutes' = openMinutes \cup {fires[r][t].at}
               /\ fires' = [fires EXCEPT ![r][t].pc = "run", ![r][t].ran = TRUE]
               /\ UNCHANGED <<flag, cronLocks, reloaded>>
      <3> USE <2>4
      <3>1. CronTypeOK'
        BY <2>1 DEF Only, Fire
      <3>2. RanAfterLock'
        BY <2>1, SMTT(30) DEF Only, RanAfterLock
      <3>3. RunsHoldKey'
        BY <2>1 DEF Only, RunsHoldKey, RanAfterLock
      <3>4. RunsHoldFlag'
        BY <2>1 DEF Only, RunsHoldFlag, RanAfterLock
      <3> QED
        BY <3>1, <3>2, <3>3, <3>4 DEF CronInv
    <2>2. CASE Ends(r, t, "skipped") /\ UNCHANGED <<cronLocks, openMinutes>>
      BY <1>6, <2>2
    <2> QED
      BY <2>2, <2>3, <2>4
  <1>8. ASSUME NEW r \in CronReplicas, NEW t \in Ticks, RouteCronEvent(r, t)
        PROVE  CronInv'
    BY <1>6, <1>8 DEF RouteCronEvent
  <1>9. CASE UNCHANGED cronVars
    BY <1>9 DEF cronVars, RanAfterLock, RunsHoldKey, RunsHoldFlag
  <1> QED
    BY <1>1, <1>2, <1>3, <1>4, <1>5, <1>7, <1>8, <1>9 DEF CronNext

(* The invariant says what RunsApart counts. *)
LEMMA CronInvRunsApart == CronInv => RunsApart
  <1> SUFFICES ASSUME CronInv PROVE RunsApart
    OBVIOUS
  <1> USE DEF CronInv
  <1>1. ASSUME NEW n \in (1..MaxMinutes) \ openMinutes
        PROVE  Cardinality({x \in CronReplicas \X Ticks :
                              fires[x[1]][x[2]].ran /\ fires[x[1]][x[2]].at = n}) <= 1
    BY AtMostOne DEF RunsHoldKey
  <1>2. ASSUME NEW r \in CronReplicas \ reloaded
        PROVE  Cardinality({t \in Ticks : fires[r][t].pc \in {"lock", "run"}}) <= 1
    BY AtMostOne DEF RunsHoldFlag
  <1> QED
    BY <1>1, <1>2 DEF RunsApart

(* cron.go, fireTrigger: over any number of replicas and ticks one         *)
(* goroutine runs the trigger for a minute unless Redis failed in it, and a *)
(* replica runs it once at a time unless a reload dropped the flag.        *)
THEOREM TriggersRunApart == CronSpec => []RunsApart
  <1>1. CronInv /\ [CronNext]_cronVars => CronInv'
    BY CronNextInv
  <1> QED
    BY CronInitInv, <1>1, CronInvRunsApart, PTL DEF CronSpec

-----------------------------------------------------------------------------
(* Replies and notifications.                                              *)

SendJob == [pc : {"idle", "send", "wait", "done"}, msg : Replies \cup {NoMessage}, attempt : Nat,
            at : Nat, shown : Seq(Nat), silent : BOOLEAN, toUser : BOOLEAN, transient : Nat,
            result : {"none", "ok", "error", "no_adapter"}]

(* How often a reply has shown a part: at most once for each earlier       *)
(* attempt, of which all failed transiently, and once in this attempt for  *)
(* the parts before the current one.                                       *)
JobCounts(reply) ==
    /\ reply.pc \in {"send", "wait"} => Len(reply.shown) = Len(PartsOf(reply.msg))
    /\ reply.pc = "send" =>
          /\ reply.at \in 1..Len(reply.shown)
          /\ \A i \in DOMAIN reply.shown :
                /\ reply.shown[i] <= reply.transient + (IF i < reply.at THEN 1 ELSE 0)
                /\ i < reply.at => reply.shown[i] >= 1
    /\ reply.pc = "wait" =>
          /\ reply.shown # <<>>
          /\ \A i \in DOMAIN reply.shown : reply.shown[i] <= reply.transient
    /\ reply.pc \in {"idle", "send", "wait"} => reply.result = "none"
    /\ reply.result = "no_adapter" => reply.shown = <<>>
    /\ reply.result = "ok" => \A i \in DOMAIN reply.shown : reply.shown[i] >= 1
    /\ \A i \in DOMAIN reply.shown : reply.shown[i] <= 1 + reply.transient

SendInv ==
    /\ messenger \in Messengers
    /\ sending \in [Senders -> SendJob]
    /\ \A s \in Senders : JobCounts(sending[s])

PartNames == {"text", "photos", "doc", "upload", "post"}

LEMMA OptionalPart ==
  ASSUME NEW c, NEW part \in PartNames, NEW s, s = IF c THEN <<part>> ELSE <<>>
  PROVE  s \in Seq(PartNames) /\ (c => Len(s) = 1)
  <1>1. CASE c
    BY <1>1
  <1>2. CASE ~c
    BY <1>2
  <1> QED
    BY <1>1, <1>2

(* Every messenger sends a message in one part or more. *)
LEMMA PartsNotEmpty ==
  ASSUME messenger \in Messengers, messenger # "none", NEW msg
  PROVE  PartsOf(msg) \in Seq(PartNames) /\ Len(PartsOf(msg)) >= 1
  <1>1. CASE messenger = "telegram"
    <2> DEFINE text == IF ~(msg.photos /\ ~msg.buttons) THEN <<"text">> ELSE <<>>
               photos == IF msg.photos THEN <<"photos">> ELSE <<>>
               doc == IF msg.docs THEN <<"doc">> ELSE <<>>
    <2>1. PartsOf(msg) = (text \o photos) \o doc
      BY <1>1 DEF PartsOf, TelegramParts
    <2>2. {"text", "photos", "doc"} \subseteq PartNames
      BY DEF PartNames
    <2>3. text \in Seq(PartNames) /\ (~(msg.photos /\ ~msg.buttons) => Len(text) = 1)
      BY <2>2, OptionalPart
    <2>4. photos \in Seq(PartNames) /\ (msg.photos => Len(photos) = 1)
      BY <2>2, OptionalPart
    <2>5. doc \in Seq(PartNames)
      BY <2>2, OptionalPart
    <2>6. Len(text) >= 1 \/ Len(photos) >= 1
      BY <2>3, <2>4
    <2> HIDE DEF text, photos, doc
    <2> QED
      BY <2>1, <2>3, <2>4, <2>5, <2>6
  <1>2. CASE messenger = "discord"
    <2>1. PartsOf(msg) = <<"post">> /\ "post" \in PartNames
      BY <1>2 DEF PartsOf, DiscordParts, PartNames
    <2> QED
      BY <2>1
  <1>3. CASE messenger \in {"vk", "mattermost"}
    <2> DEFINE upload == IF msg.photos \/ msg.docs THEN <<"upload">> ELSE <<>>
    <2>1. PartsOf(msg) = upload \o <<"post">>
      BY <1>3 DEF PartsOf, VkParts, MattermostParts
    <2>2. {"upload", "post"} \subseteq PartNames
      BY DEF PartNames
    <2>3. upload \in Seq(PartNames)
      BY <2>2, OptionalPart
    <2>4. <<"post">> \in Seq(PartNames) /\ Len(<<"post">>) = 1
      BY <2>2
    <2> HIDE DEF upload
    <2> QED
      BY <2>1, <2>3, <2>4
  <1> QED
    BY <1>1, <1>2, <1>3, ChannelSendAssumption

LEMMA SendInitInv == SendInit => SendInv
  BY DEF SendInit, SendInv, SendJob, NoSend, JobCounts

(* A new reply has shown nothing. *)
LEMMA BegunCounts ==
  ASSUME SendInv, NEW msg \in Replies, NEW silent \in BOOLEAN, NEW toUser \in BOOLEAN
  PROVE  Begun(msg, silent, toUser) \in SendJob /\ JobCounts(Begun(msg, silent, toUser))
  <1>1. CASE messenger = "none"
    <2>1. Begun(msg, silent, toUser) =
             [pc |-> "done", msg |-> NoMessage, attempt |-> 0, at |-> 0, shown |-> <<>>, silent |-> FALSE,
              toUser |-> FALSE, transient |-> 0, result |-> "no_adapter"]
      BY <1>1 DEF Begun, NoSend
    <2> QED
      BY <2>1 DEF SendJob, JobCounts
  <1>2. CASE messenger # "none"
    <2> DEFINE n == Len(PartsOf(msg))
               zeros == [i \in DOMAIN PartsOf(msg) |-> 0]
    <2>1. n \in Nat /\ n >= 1 /\ DOMAIN PartsOf(msg) = 1..n
      BY <1>2, PartsNotEmpty DEF SendInv
    <2>2. zeros \in Seq(Nat) /\ Len(zeros) = n /\ DOMAIN zeros = 1..n /\ \A i \in 1..n : zeros[i] = 0
      BY <2>1
    <2>3. Begun(msg, silent, toUser) =
             [pc |-> "send", msg |-> msg, attempt |-> 1, at |-> 1, shown |-> zeros, silent |-> silent,
              toUser |-> toUser, transient |-> 0, result |-> "none"]
      BY <1>2 DEF Begun, NoSend
    <2> HIDE DEF n, zeros
    <2> QED
      BY <2>1, <2>2, <2>3 DEF SendJob, JobCounts, n
  <1> QED
    BY <1>1, <1>2

(* A step of one sender that keeps its counts preserves the invariant. *)
LEMMA OneSender ==
  ASSUME SendInv, NEW s \in Senders, NEW reply \in SendJob, JobCounts(reply),
         sending' = [sending EXCEPT ![s] = reply], messenger' = messenger
  PROVE  SendInv'
  <1>1. \A msg : PartsOf(msg)' = PartsOf(msg)
    BY DEF PartsOf
  <1>2. sending' \in [Senders -> SendJob]
    BY DEF SendInv
  <1>3. ASSUME NEW q \in Senders
        PROVE  JobCounts(sending[q])'
    <2>1. JobCounts(sending'[q])
      BY DEF SendInv
    <2> QED
      BY <1>1, <2>1 DEF JobCounts
  <1> QED
    BY <1>2, <1>3 DEF SendInv

(* Showing the current part once more. *)
LEMMA ShowPart ==
  ASSUME NEW reply \in SendJob, JobCounts(reply), reply.pc = "send", NEW k \in 0..1
  PROVE  LET seen == [reply.shown EXCEPT ![reply.at] = @ + k]
         IN  /\ seen \in Seq(Nat) /\ Len(seen) = Len(reply.shown) /\ DOMAIN seen = 1..Len(seen)
             /\ seen # <<>>
             /\ \A i \in DOMAIN seen :
                   /\ seen[i] = IF i = reply.at THEN reply.shown[i] + k ELSE reply.shown[i]
                   /\ i < reply.at + k => seen[i] >= 1
                   /\ seen[i] <= reply.transient + (IF i < reply.at + k THEN 1 ELSE 0)
                   /\ seen[i] <= reply.transient + 1
  <1> DEFINE shown == reply.shown
             seen == [shown EXCEPT ![reply.at] = @ + k]
  <1>1. shown \in Seq(Nat) /\ reply.at \in 1..Len(shown) /\ reply.transient \in Nat
    BY DEF SendJob, JobCounts
  <1>2. \A i \in 1..Len(shown) :
           /\ shown[i] \in Nat
           /\ shown[i] <= reply.transient + (IF i < reply.at THEN 1 ELSE 0)
           /\ i < reply.at => shown[i] >= 1
    BY <1>1 DEF JobCounts
  <1> HIDE DEF shown
  <1>3. seen \in Seq(Nat) /\ Len(seen) = Len(shown) /\ DOMAIN seen = 1..Len(shown)
    BY <1>1, <1>2
  <1>4. \A i \in 1..Len(shown) : seen[i] = IF i = reply.at THEN shown[i] + k ELSE shown[i]
    BY <1>1
  <1>5. \A i \in 1..Len(shown) :
           /\ i < reply.at + k => seen[i] >= 1
           /\ seen[i] <= reply.transient + (IF i < reply.at + k THEN 1 ELSE 0)
           /\ seen[i] <= reply.transient + 1
    <2> HIDE DEF seen
    <2> SUFFICES ASSUME NEW i \in 1..Len(shown)
                 PROVE  /\ i < reply.at + k => seen[i] >= 1
                        /\ seen[i] <= reply.transient + (IF i < reply.at + k THEN 1 ELSE 0)
                        /\ seen[i] <= reply.transient + 1
      OBVIOUS
    <2>0. Len(shown) \in Nat
      BY <1>1
    <2>1. CASE i = reply.at
      <3>1. shown[i] \in Nat /\ shown[i] <= reply.transient /\ seen[i] = shown[i] + k
        BY <1>1, <1>2, <1>4, <2>1
      <3>2. CASE k = 0
        BY <1>1, <2>0, <2>1, <3>1, <3>2
      <3>3. CASE k = 1
        BY <1>1, <2>0, <2>1, <3>1, <3>3
      <3> QED
        BY <3>2, <3>3
    <2>2. CASE i < reply.at
      BY <1>1, <1>2, <1>4, <2>0, <2>2, SMTT(30)
    <2>3. CASE i > reply.at
      BY <1>1, <1>2, <1>4, <2>0, <2>3, SMTT(30)
    <2> QED
      BY <1>1, <2>0, <2>1, <2>2, <2>3
  <1> HIDE DEF seen
  <1>6. seen # <<>>
    BY <1>1, <1>3
  <1> QED
    BY <1>3, <1>4, <1>5, <1>6 DEF seen, shown

(* Neither success nor failure of a part breaks the counts. *)
LEMMA PartSentInv ==
  ASSUME SendInv, NEW s \in Senders, PartSent(s)
  PROVE  SendInv'
  <1> DEFINE reply == sending[s]
             seen == [reply.shown EXCEPT ![reply.at] = @ + 1]
             last == reply.at = Len(PartsOf(reply.msg))
             at == reply.at + 1
             done == [reply EXCEPT !.shown = seen, !.pc = "done", !.result = "ok"]
             more == [reply EXCEPT !.shown = seen, !.at = at]
  <1>1. reply \in SendJob /\ JobCounts(reply) /\ reply.pc = "send"
    BY DEF SendInv, PartSent
  <1>2. sending' = [sending EXCEPT ![s] = IF last THEN done ELSE more] /\ messenger' = messenger
    BY <1>1 DEF PartSent, SendJob, OnlySend
  <1>3. /\ seen \in Seq(Nat) /\ Len(seen) = Len(reply.shown) /\ DOMAIN seen = 1..Len(seen)
        /\ \A i \in DOMAIN seen :
              /\ i < reply.at + 1 => seen[i] >= 1
              /\ seen[i] <= reply.transient + (IF i < reply.at + 1 THEN 1 ELSE 0)
              /\ seen[i] <= reply.transient + 1
    <2>1. PICK k \in 0..1 : k = 1
      OBVIOUS
    <2>2. PICK r : r = reply
      OBVIOUS
    <2>3. r \in SendJob /\ JobCounts(r) /\ r.pc = "send"
      BY <1>1, <2>2
    <2> DEFINE counts == [r.shown EXCEPT ![r.at] = @ + k]
    <2>4. /\ counts \in Seq(Nat) /\ Len(counts) = Len(r.shown) /\ DOMAIN counts = 1..Len(counts)
          /\ \A i \in DOMAIN counts :
                /\ i < r.at + k => counts[i] >= 1
                /\ counts[i] <= r.transient + (IF i < r.at + k THEN 1 ELSE 0)
                /\ counts[i] <= r.transient + 1
      BY <2>3, ShowPart
    <2> QED
      BY <2>1, <2>2, <2>4
  <1>4. at \in Nat
    BY <1>1 DEF SendJob
  <1>5. reply.at \in 1..Len(seen) /\ Len(seen) = Len(PartsOf(reply.msg)) /\ reply.transient \in Nat
    BY <1>1, <1>3 DEF SendJob, JobCounts
  <1> HIDE DEF reply, seen
  <1>6. CASE last
    <2>1. done \in SendJob
      BY <1>1, <1>3 DEF SendJob
    <2>2. /\ done.shown = seen /\ done.transient = reply.transient /\ done.pc = "done"
          /\ done.result = "ok"
      BY <1>1 DEF SendJob
    <2>3. \A i \in DOMAIN seen : seen[i] >= 1 /\ seen[i] <= 1 + reply.transient
      BY <1>3, <1>5, <1>6
    <2> HIDE DEF done
    <2>4. JobCounts(done)
      BY <2>2, <2>3 DEF JobCounts
    <2> QED
      BY <1>2, <1>6, <2>1, <2>4, OneSender
  <1>7. CASE ~last
    <2> HIDE DEF at
    <2>1. more \in SendJob
      BY <1>1, <1>3, <1>4 DEF SendJob
    <2>2. /\ more.shown = seen /\ more.msg = reply.msg /\ more.transient = reply.transient
          /\ more.pc = "send" /\ more.result = reply.result /\ more.at = at
      BY <1>1 DEF SendJob
    <2>3. reply.result = "none"
      BY <1>1 DEF JobCounts
    <2> HIDE DEF more
    <2>4. JobCounts(more)
      BY <1>3, <1>5, <1>7, <2>2, <2>3 DEF JobCounts, at
    <2> QED
      BY <1>2, <1>7, <2>1, <2>4, OneSender
  <1> QED
    BY <1>6, <1>7

(* A reply whose attempt failed, after its part was perhaps shown. *)
LEMMA AfterErrorInv ==
  ASSUME SendInv, NEW s \in Senders, sending[s].pc = "send",
         NEW k \in 0..1, NEW transient \in BOOLEAN, messenger' = messenger,
         sending' = [sending EXCEPT ![s] =
             AfterError([sending[s] EXCEPT !.shown[sending[s].at] = @ + k], transient)]
  PROVE  SendInv'
  <1> DEFINE reply == sending[s]
             seen == [reply.shown EXCEPT ![reply.at] = @ + k]
             shown == [reply EXCEPT !.shown = seen]
             next == AfterError(shown, transient)
  <1>1. reply \in SendJob /\ JobCounts(reply) /\ reply.pc = "send"
    BY DEF SendInv
  <1>2. sending' = [sending EXCEPT ![s] = next]
    BY <1>1 DEF SendJob
  <1>3. /\ seen \in Seq(Nat) /\ Len(seen) = Len(reply.shown) /\ DOMAIN seen = 1..Len(seen) /\ seen # <<>>
        /\ \A i \in DOMAIN seen : seen[i] <= reply.transient + 1
    BY <1>1, ShowPart
  <1> HIDE DEF reply, seen
  <1>4. CASE next = Again(shown)
    <2> DEFINE more == reply.transient + 1
    <2>1. next = [reply EXCEPT !.shown = seen, !.pc = "wait", !.transient = more] /\ more \in Nat
      BY <1>1, <1>4 DEF Again, SendJob
    <2>2. next \in SendJob
      <3> HIDE DEF more, next
      <3> QED
        BY <1>1, <1>3, <2>1 DEF SendJob
    <2>3. /\ next.shown = seen /\ next.msg = reply.msg /\ next.transient = reply.transient + 1
          /\ next.pc = "wait" /\ next.result = "none"
      BY <1>1, <2>1 DEF SendJob, JobCounts
    <2>4. Len(seen) = Len(PartsOf(reply.msg)) /\ reply.transient \in Nat
      BY <1>1, <1>3 DEF SendJob, JobCounts
    <2>5. \A i \in DOMAIN seen : seen[i] \in Nat /\ seen[i] <= 1 + (reply.transient + 1)
      BY <1>3, <2>4
    <2> HIDE DEF next
    <2>6. JobCounts(next)
      BY <1>3, <2>3, <2>4, <2>5 DEF JobCounts
    <2> QED
      BY <1>2, <2>2, <2>6, OneSender
  <1>5. CASE next = GiveUp(shown)
    <2>1. next = [reply EXCEPT !.shown = seen, !.pc = "done", !.result = "error"]
      BY <1>1, <1>5 DEF GiveUp, SendJob
    <2>2. next \in SendJob
      BY <1>1, <1>3, <2>1 DEF SendJob
    <2>3. /\ next.shown = seen /\ next.transient = reply.transient
          /\ next.pc = "done" /\ next.result = "error"
      BY <1>1, <2>1 DEF SendJob
    <2>4. \A i \in DOMAIN seen : seen[i] <= 1 + reply.transient
      BY <1>1, <1>3 DEF SendJob
    <2> HIDE DEF next
    <2>5. JobCounts(next)
      BY <2>3, <2>4 DEF JobCounts
    <2> QED
      BY <1>2, <2>2, <2>5, OneSender
  <1> QED
    BY <1>4, <1>5 DEF AfterError

(* Every step of senders and prompters preserves the counts. *)
LEMMA SendNextInv ==
  ASSUME SendInv, [MenuNext \/ ReplyNext]_sendVars
  PROVE  SendInv'
  <1>1. CASE UNCHANGED <<messenger, sending>>
    <2>1. \A msg : PartsOf(msg)' = PartsOf(msg)
      BY <1>1 DEF PartsOf
    <2> QED
      BY <1>1, <2>1 DEF SendInv, JobCounts
  <1>2. ASSUME NEW s \in Senders, BeginSend(s)
        PROVE  SendInv'
    <2>1. PICK msg \in Replies, silent \in BOOLEAN, toUser \in BOOLEAN :
             sending' = [sending EXCEPT ![s] = Begun(msg, silent, toUser)]
      <3>1. SilentSender \in BOOLEAN
        BY DEF SilentSender
      <3>2. \E msg \in Replies :
              \/ sending' = [sending EXCEPT ![s] = Begun(msg, FALSE, FALSE)]
              \/ sending' = [sending EXCEPT ![s] = Begun(msg, FALSE, TRUE)]
              \/ sending' = [sending EXCEPT ![s] = Begun(msg, SilentSender, FALSE)]
              \/ sending' = [sending EXCEPT ![s] = Begun(msg, SilentSender, TRUE)]
        BY <1>2 DEF BeginSend, SendToChat, SendToUser, SendToChatWithOpts, SendToUserWithOpts
      <3> QED
        BY <3>1, <3>2, Zenon
    <2>2. messenger' = messenger
      BY <1>2 DEF BeginSend, OnlySend
    <2> QED
      BY <2>1, <2>2, BegunCounts, OneSender
  <1>3. ASSUME NEW s \in Senders, PartSent(s)
        PROVE  SendInv'
    BY <1>3, PartSentInv
  <1>4. ASSUME NEW s \in Senders, PartFails(s)
        PROVE  SendInv'
    BY <1>4, AfterErrorInv DEF PartFails, OnlySend
  <1>5. ASSUME NEW s \in Senders, OpenDirectChannelFails(s)
        PROVE  SendInv'
    <2>1. PICK transient \in BOOLEAN : sending' = [sending EXCEPT ![s] = AfterError(sending[s], transient)]
      BY <1>5 DEF OpenDirectChannelFails
    <2>2. sending[s] \in SendJob /\ JobCounts(sending[s]) /\ sending[s].pc = "send" /\ messenger' = messenger
      BY <1>5 DEF OpenDirectChannelFails, OnlySend, SendInv
    <2>3. [sending[s].shown EXCEPT ![sending[s].at] = @ + 0] = sending[s].shown
      <3> DEFINE shown == sending[s].shown
                 at == sending[s].at
      <3>1. shown \in Seq(Nat) /\ at \in 1..Len(shown)
        BY <2>2 DEF SendJob, JobCounts
      <3> HIDE DEF shown, at
      <3>2. shown[at] \in Nat /\ shown[at] + 0 = shown[at]
        BY <3>1
      <3>3. [shown EXCEPT ![at] = shown[at]] = shown
        BY <3>1
      <3>4. [shown EXCEPT ![at] = @ + 0] = shown
        BY <3>2, <3>3
      <3> QED
        BY <3>4 DEF shown, at
    <2>4. [sending[s] EXCEPT !.shown[sending[s].at] = @ + 0] = sending[s]
      BY <2>2, <2>3 DEF SendJob
    <2>5. sending' = [sending EXCEPT ![s] =
             AfterError([sending[s] EXCEPT !.shown[sending[s].at] = @ + 0], transient)]
      BY <2>1, <2>4
    <2>6. 0 \in 0..1
      OBVIOUS
    <2> QED
      BY <2>2, <2>5, <2>6, AfterErrorInv, Zenon
  <1>6. ASSUME NEW s \in Senders, WithRetry(s)
        PROVE  SendInv'
    <2> DEFINE reply == sending[s]
    <2>1. reply \in SendJob /\ JobCounts(reply) /\ reply.pc = "wait" /\ messenger' = messenger
      BY <1>6 DEF WithRetry, OnlySend, SendInv
    <2>2. reply.shown \in Seq(Nat) /\ DOMAIN reply.shown = 1..Len(reply.shown) /\ Len(reply.shown) >= 1
      BY <2>1 DEF SendJob, JobCounts
    <2>3. CASE sending' = [sending EXCEPT ![s].pc = "send", ![s].attempt = @ + 1, ![s].at = 1]
      <3> DEFINE attempt == reply.attempt + 1
                 next == [reply EXCEPT !.pc = "send", !.attempt = attempt, !.at = 1]
      <3>1. sending' = [sending EXCEPT ![s] = next] /\ attempt \in Nat
        BY <2>1, <2>3 DEF SendJob, SendInv
      <3> HIDE DEF reply, attempt
      <3>2. next \in SendJob
        BY <2>1, <3>1 DEF SendJob
      <3>3. /\ next.shown = reply.shown /\ next.msg = reply.msg /\ next.transient = reply.transient
            /\ next.pc = "send" /\ next.at = 1 /\ next.result = reply.result
        BY <2>1 DEF SendJob
      <3> HIDE DEF next
      <3>4. \A i \in DOMAIN reply.shown :
               /\ i \in Nat /\ i >= 1 /\ reply.shown[i] \in Nat
               /\ reply.shown[i] <= reply.transient
               /\ reply.shown[i] <= 1 + reply.transient
        <4> SUFFICES ASSUME NEW i \in 1..Len(reply.shown)
                     PROVE  /\ i \in Nat /\ i >= 1 /\ reply.shown[i] \in Nat
                            /\ reply.shown[i] <= reply.transient
                            /\ reply.shown[i] <= 1 + reply.transient
          BY <2>2
        <4>1. i \in DOMAIN reply.shown /\ Len(reply.shown) \in Nat
          BY <2>2
        <4>2. reply.shown[i] <= reply.transient
          BY <2>1, <4>1 DEF JobCounts
        <4>3. reply.transient \in Nat
          BY <2>1 DEF SendJob
        <4>4. i \in Nat /\ i >= 1 /\ reply.shown[i] \in Nat
          BY <2>2, <4>1
        <4> HIDE DEF reply
        <4> QED
          BY <4>2, <4>3, <4>4
      <3>5. reply.transient \in Nat /\ reply.result = "none" /\ Len(reply.shown) = Len(PartsOf(reply.msg))
        BY <2>1 DEF JobCounts, SendJob
      <3>6. JobCounts(next)
        BY <2>2, <3>3, <3>4, <3>5, SMTT(30) DEF JobCounts
      <3> QED
        BY <2>1, <3>1, <3>2, <3>6, OneSender
    <2>4. CASE sending' = [sending EXCEPT ![s] = GiveUp(@)]
      <3> DEFINE next == [reply EXCEPT !.pc = "done", !.result = "error"]
      <3>1. sending' = [sending EXCEPT ![s] = next]
        BY <2>4 DEF GiveUp
      <3> HIDE DEF reply
      <3>2. next \in SendJob
        BY <2>1 DEF SendJob
      <3>3. /\ next.shown = reply.shown /\ next.transient = reply.transient
            /\ next.pc = "done" /\ next.result = "error"
        BY <2>1 DEF SendJob
      <3> HIDE DEF next
      <3>4. JobCounts(next)
        BY <2>1, <3>3 DEF JobCounts
      <3> QED
        BY <2>1, <3>1, <3>2, <3>4, OneSender
    <2> QED
      BY <1>6, <2>3, <2>4 DEF WithRetry
  <1>7. MenuNext => UNCHANGED <<messenger, sending>>
    BY DEF MenuNext, OnlyPrompt, ShowDialogMessage, EditMessageInChat, RetireDialogMessage,
           DeleteMessageInChat, ClearButtons, SendToChatGetID, StoreMessageID
  <1> QED
    BY <1>1, <1>2, <1>3, <1>4, <1>5, <1>6, <1>7 DEF ReplyNext, sendVars

(* send.go, withRetry: whatever requests fail and whatever was shown all   *)
(* the same, a part is repeated only by attempts after transient errors,   *)
(* and success means that every part was shown.                            *)
THEOREM RepeatsNeedTransientErrors == SendSpec => []RepeatsAreRetries
  <1>1. SendInv /\ [MenuNext \/ ReplyNext]_sendVars => SendInv'
    BY SendNextInv
  <1>2. SendInv => RepeatsAreRetries
    BY DEF SendInv, JobCounts, RepeatsAreRetries
  <1> QED
    BY SendInitInv, <1>1, <1>2, PTL DEF SendSpec

-----------------------------------------------------------------------------
(* Dialog menus.  A menu whose buttons work is either the tracked one or   *)
(* in the hands of one prompter, which is about to retire or to store it;  *)
(* what two prompters hold at once is untracked already.                   *)

Pcs == {"idle", "edit", "retire", "delete", "clear", "send", "store"}

Prompt == [pc : Pcs, msg : Prompts \cup {NoMessage}, old : Nat, new : Nat]

Lost == untracked \cup {0}

\* The menu a prompter is about to retire or to store.
Claims(p, id) ==
    \/ prompt[p].pc \in {"delete", "clear"} /\ id = prompt[p].old
    \/ prompt[p].pc = "store" /\ id = prompt[p].new

MenuTypeOK ==
    /\ prompt \in [Prompters -> Prompt]
    /\ \A p \in Prompters : Showing(p) => prompt[p].new # 0
    /\ {lastBotMsgID, ids} \subseteq Nat
    /\ 0 \notin live \cup posted

LiveAccounted == \A id \in live \ untracked : id = lastBotMsgID \/ \E p \in Prompters : Claims(p, id)

EditsTracked == \A p \in Prompters : prompt[p].pc = "edit" => prompt[p].old \in Lost \cup {lastBotMsgID}

RetiredFirst == \A p \in Prompters :
    prompt[p].pc \in {"delete", "clear", "send", "store"} => lastBotMsgID \in Lost

RacesUntracked == \A p, q \in Prompters :
    p # q /\ Showing(p) /\ Showing(q) => Held(p) \cup {lastBotMsgID} \subseteq Lost

MenuInv == MenuTypeOK /\ LiveAccounted /\ EditsTracked /\ RetiredFirst /\ RacesUntracked

LEMMA MenuInitInv == SendInit => MenuInv
  BY DEF SendInit, MenuInv, MenuTypeOK, LiveAccounted, EditsTracked, RetiredFirst, RacesUntracked,
         NoPrompt, Prompt, Pcs, Showing

(* One prompter changes what it is doing, and the others go on. *)
LEMMA OnePrompter ==
  ASSUME MenuInv, NEW p \in Prompters, NEW next \in Prompt,
         prompt' = [prompt EXCEPT ![p] = next]
  PROVE  /\ prompt' \in [Prompters -> Prompt]
         /\ prompt'[p] = next
         /\ \A q \in Prompters : q # p => prompt'[q] = prompt[q] /\ prompt'[q] \in Prompt
  BY DEF MenuInv, MenuTypeOK

(* A prompter goes on to its next request, or has shown its menu. *)
LEMMA ActPrompt ==
  ASSUME MenuInv, NEW p \in Prompters, NEW pc \in Pcs, Act(p, pc)
  PROVE  /\ prompt' \in [Prompters -> Prompt]
         /\ prompt'[p].pc = pc /\ prompt'[p].old = prompt[p].old /\ prompt'[p].new = prompt[p].new
         /\ \A q \in Prompters : q # p => prompt'[q] = prompt[q] /\ prompt'[q] \in Prompt
  <1> DEFINE next == [prompt[p] EXCEPT !.pc = pc]
  <1>1. prompt' = [prompt EXCEPT ![p] = next] /\ prompt[p] \in Prompt
    BY DEF Act, MenuInv, MenuTypeOK
  <1>2. next \in Prompt /\ next.pc = pc /\ next.old = prompt[p].old /\ next.new = prompt[p].new
    BY <1>1 DEF Prompt
  <1> HIDE DEF next
  <1> QED
    BY <1>1, <1>2, OnePrompter

LEMMA ShownPrompt ==
  ASSUME MenuInv, NEW p \in Prompters, Shown(p)
  PROVE  /\ prompt' \in [Prompters -> Prompt]
         /\ prompt'[p].pc = "idle"
         /\ \A q \in Prompters : q # p => prompt'[q] = prompt[q] /\ prompt'[q] \in Prompt
  <1>1. NoPrompt \in Prompt /\ NoPrompt.pc = "idle"
    BY DEF NoPrompt, Prompt, Pcs
  <1> QED
    BY <1>1, OnePrompter DEF Shown

LEMMA ShowDialogMessageInv ==
  ASSUME MenuInv, NEW p \in Prompters, ShowDialogMessage(p)
  PROVE  MenuInv'
  <1> DEFINE id == ids + 1
  <1>1. PICK msg \in Prompts, reuse \in BOOLEAN :
           prompt' = [prompt EXCEPT ![p] =
              [pc |-> IF reuse /\ lastBotMsgID # 0 THEN "edit" ELSE "retire",
               msg |-> msg, old |-> lastBotMsgID, new |-> id]]
    BY DEF ShowDialogMessage
  <1> DEFINE next == [pc |-> IF reuse /\ lastBotMsgID # 0 THEN "edit" ELSE "retire",
                      msg |-> msg, old |-> lastBotMsgID, new |-> id]
  <1>2. id \in Nat /\ id # 0 /\ ids' = id
    BY DEF MenuInv, MenuTypeOK, ShowDialogMessage
  <1>3. /\ lastBotMsgID' = lastBotMsgID /\ live' = live /\ posted' = posted
        /\ prompt[p].pc = "idle"
        /\ untracked \subseteq untracked'
        /\ (\E q \in Prompters : Showing(q)) =>
              untracked' = untracked \cup {id, lastBotMsgID} \cup UNION {Held(q) : q \in Prompters}
    BY DEF ShowDialogMessage, Showing
  <1> HIDE DEF id
  <1>4. next \in Prompt
    BY <1>2 DEF Prompt, Pcs, MenuInv, MenuTypeOK
  <1>5. next.pc \in {"edit", "retire"} /\ next.old = lastBotMsgID /\ next.new = id
    OBVIOUS
  <1> HIDE DEF next
  <1>6. /\ prompt' \in [Prompters -> Prompt]
        /\ prompt'[p] = next
        /\ \A q \in Prompters : q # p => prompt'[q] = prompt[q] /\ prompt'[q] \in Prompt
    BY <1>1, <1>4, OnePrompter DEF next
  <1>7. MenuTypeOK'
    BY <1>2, <1>3, <1>5, <1>6 DEF MenuInv, MenuTypeOK, Showing
  <1>8. LiveAccounted'
    BY <1>3, <1>6 DEF MenuInv, LiveAccounted, Claims
  <1>9. EditsTracked'
    BY <1>3, <1>5, <1>6 DEF MenuInv, EditsTracked, Lost
  <1>10. RetiredFirst'
    BY <1>3, <1>5, <1>6 DEF MenuInv, RetiredFirst, Lost
  <1>11. RacesUntracked'
    <2> SUFFICES ASSUME NEW q \in Prompters, NEW r \in Prompters, q # r, Showing(q)', Showing(r)'
                 PROVE  (Held(q) \cup {lastBotMsgID} \subseteq Lost)'
      BY DEF RacesUntracked
    <2>1. PICK t \in Prompters : Showing(t)
      BY <1>3, <1>6 DEF Showing
    <2>2. {id, lastBotMsgID} \cup Held(q) \cup untracked \subseteq untracked'
      BY <1>3, <2>1
    <2> QED
      BY <1>3, <1>5, <1>6, <2>2 DEF Held, Lost
  <1> QED
    BY <1>7, <1>8, <1>9, <1>10, <1>11 DEF MenuInv

LEMMA EditMessageInChatInv ==
  ASSUME MenuInv, NEW p \in Prompters, EditMessageInChat(p)
  PROVE  MenuInv'
  <1>1. /\ prompt[p] \in Prompt /\ prompt[p].pc = "edit" /\ prompt[p].new # 0
        /\ prompt[p].old \in Lost \cup {lastBotMsgID}
        /\ \A q \in Prompters : Showing(q) /\ q # p => lastBotMsgID \in Lost
    BY DEF MenuInv, MenuTypeOK, EditsTracked, RacesUntracked, EditMessageInChat, Showing
  <1>2. UNCHANGED <<lastBotMsgID, posted, untracked, ids>>
    BY DEF EditMessageInChat
  <1>3. live' \subseteq live \cup {prompt[p].old} /\ 0 \notin live'
    BY DEF EditMessageInChat, Shows, MenuInv, MenuTypeOK
  <1>4. /\ prompt' \in [Prompters -> Prompt]
        /\ \/ prompt'[p].pc = "idle"
           \/ prompt'[p].pc = "retire" /\ prompt'[p].old = prompt[p].old /\ prompt'[p].new = prompt[p].new
        /\ \A q \in Prompters : q # p => prompt'[q] = prompt[q] /\ prompt'[q] \in Prompt
    <2>1. Act(p, "retire") \/ Shown(p)
      BY DEF EditMessageInChat
    <2> QED
      BY <2>1, ActPrompt, ShownPrompt DEF Pcs
  <1>10. MenuTypeOK'
    BY <1>1, <1>2, <1>3, <1>4 DEF MenuInv, MenuTypeOK, Showing
  <1>11. LiveAccounted'
    BY <1>1, <1>2, <1>3, <1>4 DEF MenuInv, LiveAccounted, Claims, Lost, MenuTypeOK
  <1>12. EditsTracked'
    BY <1>1, <1>2, <1>3, <1>4 DEF MenuInv, EditsTracked, Lost, Held, Showing
  <1>13. RetiredFirst'
    BY <1>1, <1>2, <1>3, <1>4 DEF MenuInv, RetiredFirst, Lost, Showing
  <1>14. RacesUntracked'
    BY <1>1, <1>2, <1>3, <1>4 DEF MenuInv, RacesUntracked, Lost, Held, Showing
  <1> QED
    BY <1>10, <1>11, <1>12, <1>13, <1>14 DEF MenuInv

LEMMA RetireDialogMessageInv ==
  ASSUME MenuInv, NEW p \in Prompters, RetireDialogMessage(p)
  PROVE  MenuInv'
  <1>1. /\ prompt[p] \in Prompt /\ prompt[p].pc = "retire" /\ prompt[p].new # 0
        /\ lastBotMsgID \in Nat
        /\ \A q \in Prompters : Showing(q) /\ q # p => Held(q) \cup {lastBotMsgID} \subseteq Lost
    BY DEF MenuInv, MenuTypeOK, RacesUntracked, RetireDialogMessage, Showing
  <1>2. lastBotMsgID' = 0 /\ UNCHANGED <<live, posted, untracked, ids>>
    BY DEF RetireDialogMessage
  <1>3. /\ prompt' \in [Prompters -> Prompt]
        /\ prompt'[p].old = lastBotMsgID /\ prompt'[p].new = prompt[p].new
        /\ prompt'[p].pc = IF lastBotMsgID = 0 THEN "send" ELSE "delete"
        /\ \A q \in Prompters : q # p => prompt'[q] = prompt[q] /\ prompt'[q] \in Prompt
    <2> DEFINE pc == IF lastBotMsgID = 0 THEN "send" ELSE "delete"
               next == [prompt[p] EXCEPT !.old = lastBotMsgID, !.pc = pc]
    <2>1. pc \in Pcs /\ prompt' = [prompt EXCEPT ![p] = next]
      BY DEF RetireDialogMessage, Pcs, MenuInv, MenuTypeOK
    <2> HIDE DEF pc
    <2>2. next \in Prompt /\ next.old = lastBotMsgID /\ next.new = prompt[p].new /\ next.pc = pc
      BY <1>1, <2>1 DEF Prompt
    <2> HIDE DEF next
    <2> QED
      BY <2>1, <2>2, OnePrompter DEF pc
  <1>10. MenuTypeOK'
    BY <1>1, <1>2, <1>3 DEF MenuInv, MenuTypeOK, Showing
  <1>11. LiveAccounted'
    BY <1>1, <1>2, <1>3 DEF MenuInv, LiveAccounted, Claims, Lost, MenuTypeOK
  <1>12. EditsTracked'
    BY <1>1, <1>2, <1>3 DEF MenuInv, EditsTracked, Lost, Held, Showing
  <1>13. RetiredFirst'
    BY <1>1, <1>2, <1>3 DEF MenuInv, RetiredFirst, Lost, Showing
  <1>14. RacesUntracked'
    BY <1>1, <1>2, <1>3 DEF MenuInv, RacesUntracked, Lost, Held, Showing
  <1> QED
    BY <1>10, <1>11, <1>12, <1>13, <1>14 DEF MenuInv

LEMMA DeleteMessageInChatInv ==
  ASSUME MenuInv, NEW p \in Prompters, DeleteMessageInChat(p)
  PROVE  MenuInv'
  <1>1. /\ prompt[p] \in Prompt /\ prompt[p].pc = "delete" /\ prompt[p].new # 0
        /\ lastBotMsgID \in Lost
    BY DEF MenuInv, MenuTypeOK, RetiredFirst, DeleteMessageInChat, Showing
  <1>2. UNCHANGED <<lastBotMsgID, untracked, ids>> /\ posted' \subseteq posted /\ live' \subseteq live
    BY DEF DeleteMessageInChat
  <1>3. /\ prompt' \in [Prompters -> Prompt]
        /\ prompt'[p].old = prompt[p].old /\ prompt'[p].new = prompt[p].new
        /\ \/ prompt'[p].pc = "send" /\ live' = live \ {prompt[p].old}
           \/ prompt'[p].pc = "clear"
        /\ \A q \in Prompters : q # p => prompt'[q] = prompt[q] /\ prompt'[q] \in Prompt
    <2>1. (Act(p, "send") /\ live' = live \ {prompt[p].old}) \/ Act(p, "clear")
      BY DEF DeleteMessageInChat, AfterFailedDelete
    <2> QED
      BY <2>1, ActPrompt DEF Pcs
  <1>10. MenuTypeOK'
    BY <1>1, <1>2, <1>3 DEF MenuInv, MenuTypeOK, Showing
  <1>11. LiveAccounted'
    BY <1>1, <1>2, <1>3 DEF MenuInv, LiveAccounted, Claims, Lost, MenuTypeOK
  <1>12. EditsTracked'
    BY <1>1, <1>2, <1>3 DEF MenuInv, EditsTracked, Lost, Held, Showing
  <1>13. RetiredFirst'
    BY <1>1, <1>2, <1>3 DEF MenuInv, RetiredFirst, Lost, Showing
  <1>14. RacesUntracked'
    BY <1>1, <1>2, <1>3 DEF MenuInv, RacesUntracked, Lost, Held, Showing
  <1> QED
    BY <1>10, <1>11, <1>12, <1>13, <1>14 DEF MenuInv

LEMMA ClearButtonsInv ==
  ASSUME MenuInv, NEW p \in Prompters, ClearButtons(p)
  PROVE  MenuInv'
  <1>1. /\ prompt[p] \in Prompt /\ prompt[p].pc = "clear" /\ prompt[p].new # 0
        /\ lastBotMsgID \in Lost
    BY DEF MenuInv, MenuTypeOK, RetiredFirst, ClearButtons, Showing
  <1>2. UNCHANGED <<lastBotMsgID, posted, ids>> /\ untracked \subseteq untracked'
    BY DEF ClearButtons
  <1>3. live' \subseteq live /\ prompt[p].old \notin live' \ untracked'
    BY DEF ClearButtons
  <1>4. /\ prompt' \in [Prompters -> Prompt]
        /\ prompt'[p].old = prompt[p].old /\ prompt'[p].new = prompt[p].new /\ prompt'[p].pc = "send"
        /\ \A q \in Prompters : q # p => prompt'[q] = prompt[q] /\ prompt'[q] \in Prompt
    BY ActPrompt DEF ClearButtons, Pcs
  <1>10. MenuTypeOK'
    BY <1>1, <1>2, <1>3, <1>4 DEF MenuInv, MenuTypeOK, Showing
  <1>11. LiveAccounted'
    BY <1>1, <1>2, <1>3, <1>4 DEF MenuInv, LiveAccounted, Claims, Lost, MenuTypeOK
  <1>12. EditsTracked'
    BY <1>1, <1>2, <1>3, <1>4 DEF MenuInv, EditsTracked, Lost, Held, Showing
  <1>13. RetiredFirst'
    BY <1>1, <1>2, <1>3, <1>4 DEF MenuInv, RetiredFirst, Lost, Showing
  <1>14. RacesUntracked'
    BY <1>1, <1>2, <1>3, <1>4 DEF MenuInv, RacesUntracked, Lost, Held, Showing
  <1> QED
    BY <1>10, <1>11, <1>12, <1>13, <1>14 DEF MenuInv

LEMMA SendToChatGetIDInv ==
  ASSUME MenuInv, NEW p \in Prompters, SendToChatGetID(p)
  PROVE  MenuInv'
  <1>1. /\ prompt[p] \in Prompt /\ prompt[p].pc = "send" /\ prompt[p].new # 0
        /\ lastBotMsgID \in Lost
    BY DEF MenuInv, MenuTypeOK, RetiredFirst, SendToChatGetID, Showing
  <1>2. UNCHANGED <<lastBotMsgID, ids>> /\ untracked \subseteq untracked'
    BY DEF SendToChatGetID
  <1>3. 0 \notin live' \cup posted' /\ live' \subseteq live \cup {prompt[p].new}
    BY <1>1 DEF SendToChatGetID, Shows, MenuInv, MenuTypeOK
  <1>4. /\ prompt' \in [Prompters -> Prompt]
        /\ \/ prompt'[p].pc = "idle" /\ prompt[p].new \in untracked'
           \/ prompt'[p].pc = "idle" /\ live' = live
           \/ prompt'[p].old = prompt[p].old /\ prompt'[p].new = prompt[p].new /\ prompt'[p].pc = "store"
        /\ \A q \in Prompters : q # p => prompt'[q] = prompt[q] /\ prompt'[q] \in Prompt
    <2>1. \/ Shown(p) /\ prompt[p].new \in untracked'
          \/ Shown(p) /\ live' = live
          \/ Act(p, "store")
      BY DEF SendToChatGetID
    <2> QED
      BY <2>1, ActPrompt, ShownPrompt DEF Pcs
  <1>10. MenuTypeOK'
    BY <1>1, <1>2, <1>3, <1>4 DEF MenuInv, MenuTypeOK, Showing
  <1>11. LiveAccounted'
    BY <1>1, <1>2, <1>3, <1>4 DEF MenuInv, LiveAccounted, Claims, Lost, MenuTypeOK
  <1>12. EditsTracked'
    BY <1>1, <1>2, <1>3, <1>4 DEF MenuInv, EditsTracked, Lost, Held, Showing
  <1>13. RetiredFirst'
    BY <1>1, <1>2, <1>3, <1>4 DEF MenuInv, RetiredFirst, Lost, Showing
  <1>14. RacesUntracked'
    BY <1>1, <1>2, <1>3, <1>4 DEF MenuInv, RacesUntracked, Lost, Held, Showing
  <1> QED
    BY <1>10, <1>11, <1>12, <1>13, <1>14 DEF MenuInv

LEMMA StoreMessageIDInv ==
  ASSUME MenuInv, NEW p \in Prompters, StoreMessageID(p)
  PROVE  MenuInv'
  <1>1. /\ prompt[p] \in Prompt /\ prompt[p].pc = "store" /\ prompt[p].new # 0 /\ prompt[p].new \in Nat
        /\ lastBotMsgID \in Lost
        /\ \A q \in Prompters : Showing(q) /\ q # p =>
              prompt[p].new \in Lost /\ Held(q) \subseteq Lost
    BY DEF MenuInv, MenuTypeOK, RetiredFirst, RacesUntracked, StoreMessageID, Showing, Prompt, Held
  <1>2. lastBotMsgID' = prompt[p].new /\ UNCHANGED <<live, posted, untracked, ids>>
    BY DEF StoreMessageID
  <1>3. /\ prompt' \in [Prompters -> Prompt]
        /\ prompt'[p].pc = "idle"
        /\ \A q \in Prompters : q # p => prompt'[q] = prompt[q] /\ prompt'[q] \in Prompt
    BY ShownPrompt DEF StoreMessageID
  <1>10. MenuTypeOK'
    BY <1>1, <1>2, <1>3 DEF MenuInv, MenuTypeOK, Showing
  <1>11. LiveAccounted'
    BY <1>1, <1>2, <1>3 DEF MenuInv, LiveAccounted, Claims, Lost, MenuTypeOK
  <1>12. EditsTracked'
    BY <1>1, <1>2, <1>3 DEF MenuInv, EditsTracked, Lost, Held, Showing
  <1>13. RetiredFirst'
    BY <1>1, <1>2, <1>3 DEF MenuInv, RetiredFirst, Lost, Showing
  <1>14. RacesUntracked'
    BY <1>1, <1>2, <1>3 DEF MenuInv, RacesUntracked, Lost, Held, Showing
  <1> QED
    BY <1>10, <1>11, <1>12, <1>13, <1>14 DEF MenuInv

LEMMA MenuNextInv ==
  ASSUME MenuInv, [MenuNext \/ ReplyNext]_sendVars
  PROVE  MenuInv'
  <1>1. CASE UNCHANGED <<lastBotMsgID, live, posted, prompt, untracked, ids>>
    BY <1>1 DEF MenuInv, MenuTypeOK, LiveAccounted, EditsTracked, RetiredFirst, RacesUntracked,
                Claims, Lost, Showing, Held
  <1>2. CASE MenuNext
    BY <1>2, ShowDialogMessageInv, EditMessageInChatInv, RetireDialogMessageInv, DeleteMessageInChatInv,
       ClearButtonsInv, SendToChatGetIDInv, StoreMessageIDInv, SMTT(30) DEF MenuNext
  <1>3. ReplyNext => UNCHANGED OnlySend
    BY DEF ReplyNext, BeginSend, PartSent, PartFails, OpenDirectChannelFails, WithRetry
  <1> QED
    BY <1>1, <1>2, <1>3 DEF sendVars, OnlySend

(* manager.go, showDialogMessage: whatever requests fail and however two   *)
(* prompts interleave, a chat at rest has no live menu but the tracked one *)
(* and those that a lost answer or a race left behind.                     *)
THEOREM MenusAreRetired == SendSpec => []OneLiveMenu
  <1>1. MenuInv /\ [MenuNext \/ ReplyNext]_sendVars => MenuInv'
    BY MenuNextInv
  <1>2. MenuInv => OneLiveMenu
    BY DEF MenuInv, LiveAccounted, Claims, OneLiveMenu, Showing
  <1> QED
    BY MenuInitInv, <1>1, <1>2, PTL DEF SendSpec

-----------------------------------------------------------------------------
(* Chat registration.  A handler inside the registry is registering the    *)
(* chat of its message; no handler of a message unregisters a chat, so a   *)
(* row that was found or inserted is still there when the call returns.    *)

\* The shapes of the records; their ids and parts may be anything.
JobShape(j) == j = [pc |-> j.pc, id |-> j.id, parts |-> j.parts, from |-> j.from]

CallShape(c) == c = [op |-> c.op, chat |-> c.chat, row |-> c.row]

Registering(h) == registry[h].op # "none"

RegisteringInv == \A h \in Handlers :
    /\ registry[h].op \in {"none", "find", "insert", "done", "failed"}
    /\ Registering(h) => job[h].pc = "registering" /\ registry[h].chat = Message(h).chat
    /\ registry[h].op = "done" => FindChat(registry[h].chat) # {}

KnownInv == \A c \in knownChats :
    FindChat(c) # {} \/ \E h \in Handlers : Registering(h) /\ registry[h].chat = c

InboxShapes ==
    /\ job = [h \in Handlers |-> job[h]] /\ \A h \in Handlers : JobShape(job[h])
    /\ registry = [h \in Handlers |-> registry[h]] /\ \A h \in Handlers : CallShape(registry[h])

InboxInv == InboxShapes /\ RegisteringInv /\ KnownInv

LEMMA InboxInitInv == InboxInit => InboxInv
  <1> SUFFICES ASSUME InboxInit
               PROVE  InboxInv
    OBVIOUS
  <1>1. /\ job = [h \in Handlers |-> Resting] /\ registry = [h \in Handlers |-> NoCall]
        /\ knownChats = {}
    BY DEF InboxInit, RegistryInit
  <1>2. JobShape(Resting) /\ CallShape(NoCall) /\ NoCall.op = "none"
    BY DEF JobShape, CallShape, Resting, NoCall
  <1>3. InboxShapes
    BY <1>1, <1>2 DEF InboxShapes
  <1>4. RegisteringInv /\ KnownInv
    BY <1>1, <1>2 DEF RegisteringInv, KnownInv, Registering
  <1> QED
    BY <1>3, <1>4 DEF InboxInv

LEMMA GoToShape ==
  ASSUME InboxInv, NEW h \in Handlers, NEW pc, GoTo(h, pc)
  PROVE  \E next : /\ job' = [job EXCEPT ![h] = next]
                   /\ JobShape(next) /\ next.pc = pc /\ next.from = job[h].from
  <1> DEFINE next == [job[h] EXCEPT !.pc = pc]
  <1>1. job' = [job EXCEPT ![h] = next]
    BY DEF GoTo
  <1>2. JobShape(job[h])
    BY DEF InboxInv, InboxShapes
  <1>3. next = [pc |-> pc, id |-> job[h].id, parts |-> job[h].parts, from |-> job[h].from]
    BY <1>2 DEF JobShape
  <1>4. JobShape(next) /\ next.pc = pc /\ next.from = job[h].from
    BY <1>3 DEF JobShape
  <1> QED
    BY <1>1, <1>4

(* A step of a handler that is not inside the registry. *)
LEMMA OutsideRegistry ==
  ASSUME InboxInv, NEW h \in Handlers, job[h].pc # "registering", NEW next, JobShape(next),
         job' = [job EXCEPT ![h] = next], UNCHANGED <<chatRows, registry, knownChats>>
  PROVE  InboxInv'
  <1>1. /\ job' = [g \in Handlers |-> job'[g]] /\ job'[h] = next
        /\ \A g \in Handlers : g # h => job'[g] = job[g]
    BY DEF InboxInv, InboxShapes
  <1>2. InboxShapes'
    BY <1>1 DEF InboxInv, InboxShapes
  <1>3. RegisteringInv'
    BY <1>1 DEF InboxInv, RegisteringInv, Registering, Message, FindChat
  <1>4. KnownInv'
    BY DEF InboxInv, KnownInv, Registering, FindChat
  <1> QED
    BY <1>2, <1>3, <1>4 DEF InboxInv

LEMMA BuildInv ==
  ASSUME InboxInv, NEW h \in Handlers, job[h].pc # "registering", NEW parts, Build(h, parts),
         UNCHANGED <<chatRows, registry, knownChats>>
  PROVE  InboxInv'
  <1>1. CASE parts = {}
    <2>1. job' = [job EXCEPT ![h] = Resting] /\ JobShape(Resting)
      BY <1>1 DEF Build, JobShape, Resting
    <2> QED
      BY <2>1, OutsideRegistry
  <1>2. CASE parts # {}
    <2> DEFINE marking == [job[h] EXCEPT !.pc = "mark"]
               next == [marking EXCEPT !.parts = parts]
    <2>1. JobShape(job[h]) /\ job' = [job EXCEPT ![h] = next]
      BY <1>2 DEF InboxInv, InboxShapes, Build
    <2>2. marking = [pc |-> "mark", id |-> job[h].id, parts |-> job[h].parts, from |-> job[h].from]
      BY <2>1 DEF JobShape
    <2> HIDE DEF marking
    <2>3. next = [pc |-> "mark", id |-> job[h].id, parts |-> parts, from |-> job[h].from]
      BY <2>2
    <2>4. JobShape(next)
      BY <2>3 DEF JobShape
    <2> HIDE DEF next
    <2> QED
      BY <2>1, <2>4, OutsideRegistry
  <1> QED
    BY <1>1, <1>2

(* Everything but the registration of a chat. *)
LEMMA HandlerInv ==
  ASSUME InboxInv, NEW h \in Handlers,
         \/ Deliver(h) \/ InputGiven(h) \/ CollectInput(h) \/ StoreFiles(h)
         \/ (\E a \in AlbumIds : FlushAlbum(h, a)) \/ Middleware(h) \/ OnUpdate(h)
  PROVE  InboxInv'
  <1>0. JobShape(Resting)
    BY DEF JobShape, Resting
  <1>1. CASE Deliver(h)
    <2>1. PICK m, pc : Taken(h, m, pc)
      BY <1>1 DEF Deliver, HandleTextMessage, HandleFileMessage, OnCallback, MessageCreate, InteractionCreate,
                  HandleMessageEvent, HandleMessageNew, HandlePostedEvent, HandleAction
    <2>2. job[h].pc = "idle" /\ UNCHANGED <<chatRows, registry, knownChats>>
      BY <2>1 DEF Taken, Free, registryVars
    <2>3. CASE m.own
      BY <2>1, <2>2, <2>3, SMTT(30) DEF Taken, InboxInv, InboxShapes, RegisteringInv, KnownInv, Registering, Message,
                              FindChat
    <2>4. CASE ~m.own
      <3> DEFINE next == [pc |-> pc, id |-> m.id, parts |-> {}, from |-> {m}]
      <3>1. job' = [job EXCEPT ![h] = next] /\ JobShape(next)
        BY <2>1, <2>4 DEF Taken, JobShape
      <3> HIDE DEF next
      <3> QED
        BY <2>2, <3>1, OutsideRegistry
    <2> QED
      BY <2>3, <2>4
  <1>2. CASE InputGiven(h)
    BY <1>2, BuildInv DEF InputGiven, Quiet, registryVars
  <1>3. CASE CollectInput(h)
    <2>1. job[h].pc # "registering" /\ UNCHANGED <<chatRows, registry, knownChats>>
      BY <1>3 DEF CollectInput, Quiet, registryVars
    <2>2. CASE GoTo(h, "store")
      BY <2>1, <2>2, GoToShape, OutsideRegistry
    <2>3. CASE Build(h, {Message(h).id})
      BY <2>1, <2>3, BuildInv
    <2> QED
      BY <1>3, <2>2, <2>3 DEF CollectInput
  <1>4. CASE StoreFiles(h)
    <2>1. job[h].pc # "registering" /\ UNCHANGED <<chatRows, registry, knownChats>>
      BY <1>4 DEF StoreFiles, Quiet, registryVars
    <2>2. (\E f : Add(h, f)) \/ (\E parts : Build(h, parts))
      BY <1>4 DEF StoreFiles, StoreTelegramFile, DownloadAndStore, CollectPostFiles, CollectAttachments
    <2>3. CASE \E f : Add(h, f)
      <3>1. job' = [job EXCEPT ![h] = Resting]
        BY <2>3 DEF Add
      <3> QED
        BY <1>0, <2>1, <3>1, OutsideRegistry
    <2>4. CASE \E parts : Build(h, parts)
      BY <2>1, <2>4, BuildInv
    <2> QED
      BY <2>2, <2>3, <2>4
  <1>5. ASSUME NEW a \in AlbumIds, FlushAlbum(h, a)
        PROVE  InboxInv'
    <2> DEFINE album == CollectAlbumFiles(albums[a])
               next == [pc |-> "mark", id |-> AlbumUpdateId(a), parts |-> album.files, from |-> album.from]
    <2>1. job[h].pc # "registering" /\ UNCHANGED <<chatRows, registry, knownChats>>
      BY <1>5 DEF FlushAlbum, Free, Quiet, registryVars
    <2>2. job' = [job EXCEPT ![h] = next]
      BY <1>5 DEF FlushAlbum
    <2> HIDE DEF album
    <2>3. JobShape(next)
      BY DEF JobShape
    <2> HIDE DEF next
    <2> QED
      BY <2>1, <2>2, <2>3, OutsideRegistry
  <1>6. CASE Middleware(h)
    <2>1. job[h].pc # "registering" /\ UNCHANGED <<chatRows, registry, knownChats>>
      BY <1>6 DEF Middleware
    <2>2. GoTo(h, "manager") \/ job' = [job EXCEPT ![h] = Resting]
      BY <1>6 DEF Middleware
    <2> QED
      BY <1>0, <2>1, <2>2, GoToShape, OutsideRegistry
  <1>7. CASE OnUpdate(h)
    <2>1. job[h].pc # "registering" /\ UNCHANGED <<chatRows, registry, knownChats>>
      BY <1>7 DEF OnUpdate, registryVars
    <2>2. job' = [job EXCEPT ![h] = Resting]
      BY <1>7 DEF OnUpdate
    <2> QED
      BY <1>0, <2>1, <2>2, OutsideRegistry
  <1> QED
    BY <1>1, <1>2, <1>3, <1>4, <1>5, <1>6, <1>7

(* A chat is marked known in the same step that begins its registration. *)
LEMMA EnsureChatRegisteredInv ==
  ASSUME InboxInv, NEW h \in Handlers, EnsureChatRegistered(h)
  PROVE  InboxInv'
  <1> DEFINE chat == Message(h).chat
  <1>1. job[h].pc = "register" /\ chatRows' = chatRows /\ ~Registering(h)
    BY DEF EnsureChatRegistered, InboxInv, RegisteringInv
  <1>2. \/ GoTo(h, "collect") /\ UNCHANGED <<registry, knownChats>>
        \/ /\ registry' = [registry EXCEPT ![h] = OnChatJoin(chat)]
           /\ knownChats' = knownChats \cup {chat}
           /\ GoTo(h, "registering")
    BY DEF EnsureChatRegistered, EnsureVkChat, EnsureMattermostChat
  <1>3. CASE GoTo(h, "collect") /\ UNCHANGED <<registry, knownChats>>
    BY <1>1, <1>3, GoToShape, OutsideRegistry
  <1>4. CASE /\ registry' = [registry EXCEPT ![h] = OnChatJoin(chat)]
             /\ knownChats' = knownChats \cup {chat}
             /\ GoTo(h, "registering")
    <2>1. PICK next : /\ job' = [job EXCEPT ![h] = next] /\ JobShape(next)
                      /\ next.pc = "registering" /\ next.from = job[h].from
      BY <1>4, GoToShape
    <2> DEFINE call == OnChatJoin(chat)
    <2>2. call.op = "find" /\ call.chat = chat /\ CallShape(call)
      BY DEF OnChatJoin, CallShape
    <2>3. registry' = [registry EXCEPT ![h] = call]
      BY <1>4
    <2> HIDE DEF call
    <2>4. /\ job' = [g \in Handlers |-> job'[g]] /\ job'[h] = next
          /\ registry' = [g \in Handlers |-> registry'[g]] /\ registry'[h] = call
          /\ \A g \in Handlers : g # h => job'[g] = job[g] /\ registry'[g] = registry[g]
      BY <2>1, <2>3 DEF InboxInv, InboxShapes
    <2>5. \A g \in Handlers : Message(g)' = Message(g)
      BY <2>1, <2>4 DEF Message
    <2> HIDE DEF chat
    <2>6. InboxShapes'
      BY <2>1, <2>2, <2>4 DEF InboxInv, InboxShapes
    <2>7. RegisteringInv'
      BY <1>1, <2>1, <2>2, <2>4, <2>5 DEF InboxInv, RegisteringInv, Registering, FindChat, chat
    <2>8. KnownInv'
      <3> SUFFICES ASSUME NEW c \in knownChats', FindChat(c)' = {}
                   PROVE  \E g \in Handlers : (Registering(g) /\ registry[g].chat = c)'
        BY DEF KnownInv
      <3>1. CASE c = chat
        BY <2>2, <2>4, <3>1 DEF Registering
      <3>2. CASE c # chat
        <4>1. c \in knownChats /\ FindChat(c) = {}
          BY <1>1, <1>4, <3>2 DEF FindChat, chat
        <4>2. PICK g \in Handlers : Registering(g) /\ registry[g].chat = c
          BY <4>1 DEF InboxInv, KnownInv
        <4> QED
          BY <1>1, <2>4, <4>2 DEF Registering
      <3> QED
        BY <3>1, <3>2
    <2> QED
      BY <2>6, <2>7, <2>8 DEF InboxInv
  <1> QED
    BY <1>2, <1>3, <1>4

(* A registration that failed forgets its chat; one that succeeded left a row. *)
LEMMA ChatRegisteredInv ==
  ASSUME InboxInv, NEW h \in Handlers, ChatRegistered(h)
  PROVE  InboxInv'
  <1> DEFINE chat == Message(h).chat
  <1>1. /\ Registering(h) /\ registry[h].chat = chat
        /\ registry[h].op \in {"done", "failed"} /\ chatRows' = chatRows
        /\ registry[h].op = "done" => FindChat(chat) # {}
    BY DEF ChatRegistered, Returned, Registering, InboxInv, RegisteringInv
  <1>2. PICK next : /\ job' = [job EXCEPT ![h] = next] /\ JobShape(next)
    BY GoToShape DEF ChatRegistered
  <1>3. NoCall.op = "none" /\ CallShape(NoCall)
    BY DEF NoCall, CallShape
  <1>4. /\ job' = [g \in Handlers |-> job'[g]] /\ job'[h] = next
        /\ registry' = [g \in Handlers |-> registry'[g]] /\ registry'[h] = NoCall
        /\ \A g \in Handlers : g # h => job'[g] = job[g] /\ registry'[g] = registry[g]
    BY <1>2 DEF InboxInv, InboxShapes, ChatRegistered
  <1>5. knownChats' = IF registry[h].op = "failed" THEN knownChats \ {chat} ELSE knownChats
    BY DEF ChatRegistered, ForgetChat
  <1> HIDE DEF chat
  <1>6. InboxShapes'
    BY <1>2, <1>3, <1>4 DEF InboxInv, InboxShapes
  <1>7. RegisteringInv'
    <2>1. \A c : FindChat(c)' = FindChat(c)
      BY <1>1 DEF FindChat
    <2>2. \A g \in Handlers : g # h => Message(g)' = Message(g)
      BY <1>4 DEF Message
    <2> QED
      BY <1>3, <1>4, <2>1, <2>2 DEF InboxInv, RegisteringInv, Registering
  <1>8. KnownInv'
    <2> SUFFICES ASSUME NEW c \in knownChats', FindChat(c)' = {}
                 PROVE  \E g \in Handlers : (Registering(g) /\ registry[g].chat = c)'
      BY DEF KnownInv
    <2>1. c \in knownChats /\ FindChat(c) = {} /\ c # chat
      BY <1>1, <1>5 DEF FindChat
    <2>2. PICK g \in Handlers : Registering(g) /\ registry[g].chat = c
      BY <2>1 DEF InboxInv, KnownInv
    <2> QED
      BY <1>1, <1>4, <2>1, <2>2 DEF Registering
  <1> QED
    BY <1>6, <1>7, <1>8 DEF InboxInv

(* Inside the registry only rows are added here. *)
LEMMA RegistryStepInv ==
  ASSUME InboxInv, NEW h \in Handlers, RegistryStep(h), UNCHANGED <<job, knownChats>>
  PROVE  InboxInv'
  <1>1. registry[h].op \in {"find", "insert"}
    BY DEF RegistryStep, DatabaseError, FindOrCreateChat, RegisterChat, UnregisterChatByPlatformID,
           UnregisterChat, InboxInv, RegisteringInv
  <1>2. PICK op \in {"insert", "done", "failed"} :
          /\ Step(h, op) /\ chatRows \subseteq chatRows'
          /\ op = "done" => FindChat(registry[h].chat)' # {}
    <2>1. CASE DatabaseError(h)
      BY <2>1 DEF DatabaseError
    <2>2. CASE FindOrCreateChat(h)
      <3> DEFINE op == IF FindChat(registry[h].chat) = {} THEN "insert" ELSE "done"
      <3>1. Step(h, op) /\ chatRows' = chatRows
        BY <2>2 DEF FindOrCreateChat
      <3>2. op = "done" => FindChat(registry[h].chat) # {}
        OBVIOUS
      <3>3. registry'[h].chat = registry[h].chat
        BY <3>1 DEF Step, InboxInv, InboxShapes, CallShape
      <3>4. FindChat(registry[h].chat)' = FindChat(registry[h].chat)
        BY <3>1, <3>3 DEF FindChat
      <3> QED
        BY <3>1, <3>2, <3>4
    <2>3. CASE RegisterChat(h)
      <3> DEFINE row == FreshRow(registry[h].chat)
      <3>1. row[1] = registry[h].chat /\ registry'[h].chat = registry[h].chat
        BY <2>3 DEF FreshRow, RegisterChat, Step, InboxInv, InboxShapes, CallShape
      <3>2. row \in chatRows'
        BY <2>3 DEF RegisterChat
      <3> HIDE DEF row
      <3> QED
        BY <2>3, <3>1, <3>2 DEF RegisterChat, FindChat
    <2> QED
      BY <1>1, <2>1, <2>2, <2>3 DEF RegistryStep, UnregisterChatByPlatformID, UnregisterChat
  <1> DEFINE call == [registry[h] EXCEPT !.op = op]
  <1>3. registry' = [registry EXCEPT ![h] = call] /\ CallShape(registry[h])
    BY <1>2 DEF Step, InboxInv, InboxShapes
  <1>4. CallShape(call) /\ call.op = op /\ call.chat = registry[h].chat
    BY <1>3 DEF CallShape
  <1> HIDE DEF call
  <1>5. /\ registry' = [g \in Handlers |-> registry'[g]] /\ registry'[h] = call
        /\ \A g \in Handlers : g # h => registry'[g] = registry[g]
    BY <1>3 DEF InboxInv, InboxShapes
  <1>6. \A c : FindChat(c) # {} => FindChat(c)' # {}
    BY <1>2 DEF FindChat
  <1>7. InboxShapes'
    BY <1>4, <1>5 DEF InboxInv, InboxShapes
  <1>8. RegisteringInv'
    BY <1>1, <1>2, <1>4, <1>5, <1>6 DEF InboxInv, RegisteringInv, Registering, Message, FindChat
  <1>9. KnownInv'
    BY <1>1, <1>2, <1>4, <1>5, <1>6 DEF InboxInv, KnownInv, Registering
  <1> QED
    BY <1>7, <1>8, <1>9 DEF InboxInv

LEMMA InboxNextInv ==
  ASSUME InboxInv, [InboxNext]_inboxVars
  PROVE  InboxInv'
  <1>1. CASE UNCHANGED <<job, chatRows, registry, knownChats>>
    BY <1>1 DEF InboxInv, InboxShapes, RegisteringInv, KnownInv, Registering, Message, FindChat
  <1>2. CASE Restart
    BY <1>2 DEF Restart, InboxInv, InboxShapes, JobShape, CallShape, RegisteringInv, KnownInv,
                Registering, Resting, NoCall
  <1>3. ASSUME NEW h \in Handlers, RegistryStep(h) /\ UNCHANGED <<job, knownChats, marks, Collected>>
        PROVE  InboxInv'
    BY <1>3, RegistryStepInv
  <1>4. MarkExpires => UNCHANGED <<job, chatRows, registry, knownChats>>
    BY DEF MarkExpires
  <1>5. inboxVars' = inboxVars => UNCHANGED <<job, chatRows, registry, knownChats>>
    BY DEF inboxVars, registryVars
  <1> QED
    BY <1>1, <1>2, <1>3, <1>4, <1>5, HandlerInv, EnsureChatRegisteredInv, ChatRegisteredInv DEF InboxNext

(* bot.go, ensureChatRegistered: the mark in knownChats is set before the  *)
(* registration, yet a chat never stays known without a row: no failure,   *)
(* redelivery or second handler loses the chat for good.                   *)
THEOREM KnownChatsHaveRows == InboxSpec => []KnownChatsRegistered
  <1>1. InboxInv /\ [InboxNext]_inboxVars => InboxInv'
    BY InboxNextInv
  <1>2. InboxInv => KnownChatsRegistered
    BY DEF InboxInv, KnownInv, Registering, KnownChatsRegistered
  <1> QED
    BY InboxInitInv, <1>1, <1>2, PTL DEF InboxSpec

-----------------------------------------------------------------------------
(* Updates.  A message is wherever a handler works on it, an album waits   *)
(* with it, or an update with it is in the middleware or with the manager. *)

Early == {"register", "registering", "collect", "input", "store"}

Works(h, m) == m \in job[h].from /\ job[h].pc \in Early \cup {"mark"}

Marking(h, m) == m \in job[h].from /\ job[h].pc = "mark"

Passing(h, m) == m \in job[h].from /\ job[h].pc = "manager"

Waits(i, m) ==
    m.album \in AlbumIds /\ i \in DOMAIN albums[m.album] /\ albums[m.album][i].from = m

(* What a handler has in its hands: one message, and then an update of it  *)
(* or of an album, with something of each message.                         *)
JobFits(j, t) ==
    /\ j.pc \in {"idle", "mark", "manager"} \cup Early
    /\ j.from \subseteq t
    /\ j.pc = "idle" => j.from = {}
    /\ j.pc \in Early => \E m \in t : j.from = {m} /\ j.id = m.id
    /\ j.pc \in {"mark", "manager"} =>
          /\ \E n \in j.from : j.id = n.id
          /\ j.parts \subseteq UNION {Contents(n) : n \in j.from}
          /\ \A n \in j.from : Contents(n) \cap j.parts # {}
          /\ (\E n : j.from = {n}) \/ (\E a \in AlbumIds : \A n \in j.from : n.album = a)

Entry == [id : {m.id : m \in Messages}, file : Parts, from : Messages]

EntryFits(e, a, t) == e.from \in t /\ e.from.album = a /\ e.file \in Contents(e.from) /\ e.id = e.from.id

UpdatesTyped ==
    /\ traffic \in Traffics
    /\ delivered \in [Messages -> Nat] /\ handed \in [Parts -> Nat]
    /\ albums \in [AlbumIds -> Seq(Entry)]
    /\ \A h \in Handlers : JobFits(job[h], traffic)
    /\ \A a \in AlbumIds : \A i \in DOMAIN albums[a] : EntryFits(albums[a][i], a, traffic)

Unhanded(m) == \A p \in Contents(m) : handed[p] = 0

AtMostOnce(m) == \A p \in Contents(m) : handed[p] <= 1

(* A message that came once is in one place, and is marked and handed over *)
(* in the end only.                                                        *)
CameOnce(m) ==
    /\ \A g, h \in Handlers : (Works(g, m) \/ Passing(g, m)) /\ (Works(h, m) \/ Passing(h, m)) => g = h
    /\ \A i, k : Waits(i, m) /\ Waits(k, m) => i = k
    /\ \A h \in Handlers : \A i : Works(h, m) \/ Passing(h, m) => ~Waits(i, m)
    /\ \A h \in Handlers : Works(h, m) => m.id \notin marks /\ Unhanded(m)
    /\ \A i : Waits(i, m) => m.id \notin marks /\ Unhanded(m)
    /\ \A h \in Handlers : Passing(h, m) => Unhanded(m)
    /\ delivered[m] = 0 => /\ m.id \notin marks /\ Unhanded(m)
                           /\ \A h \in Handlers : ~Works(h, m) /\ ~Passing(h, m)
                           /\ \A i : ~Waits(i, m)
    /\ AtMostOnce(m)

(* A message of no album is handed over by the one handler that marks it.  *)
MarkedOnce(m) ==
    /\ \A g, h \in Handlers : Passing(g, m) /\ Passing(h, m) => g = h
    /\ \A h \in Handlers : Passing(h, m) => m.id \in marks /\ Unhanded(m)
    /\ m.id \notin marks => Unhanded(m)
    /\ AtMostOnce(m)

(* A message arrives, or the process stopped over it.                      *)
Arrived(m) ==
    \/ \E p \in Contents(m) : handed[p] >= 1
    \/ m \in lost
    \/ \E h \in Handlers : Passing(h, m)

Arrives(m) ==
    /\ m \in accepted => Arrived(m) \/ (\E h \in Handlers : Marking(h, m)) \/ \E i : Waits(i, m)
    /\ m.album = "" /\ m.id \in marks => Arrived(m)

MessageInv(m) ==
    /\ delivered[m] <= 1 => CameOnce(m)
    /\ m.album = "" /\ m.id \notin lapsed => MarkedOnce(m)
    /\ ~Regrouped(m) => Arrives(m)

UpdatesInv == UpdatesTyped /\ \A m \in traffic : MessageInv(m)

(* Ids and files tell messages apart. *)
LEMMA Identified ==
  ASSUME UpdatesTyped, NEW m \in traffic, NEW n \in traffic
  PROVE  /\ m \in Messages /\ m.id \in Contents(m) /\ Contents(m) \subseteq Parts
         /\ m.id = n.id => m = n
         /\ \A p : p \in Contents(m) /\ p \in Contents(n) => m = n
  <1>1. m \in Messages /\ n \in Messages
    BY DEF UpdatesTyped, Messages
  <1>2. m.id \in Contents(m) /\ n.id \in Contents(n)
    BY DEF Contents
  <1>3. Contents(m) \subseteq Parts
    BY <1>1 DEF Parts
  <1>4. m # n => Contents(m) \cap Contents(n) = {}
    BY InboxAssumption DEF UpdatesTyped
  <1> QED
    BY <1>1, <1>2, <1>3, <1>4

(* A step elsewhere: it may drop work on the message, and take its mark.   *)
LEMMA Elsewhere ==
  ASSUME NEW m \in traffic, MessageInv(m),
         \A h \in Handlers : /\ Works(h, m)' => Works(h, m)
                             /\ Marking(h, m) => Marking(h, m)'
                             /\ Passing(h, m)' <=> Passing(h, m),
         \A i : Waits(i, m)' <=> Waits(i, m),
         delivered'[m] = delivered[m],
         m.id \in marks' => m.id \in marks,
         m.id \in marks => m.id \in marks' \/ m.id \in lapsed',
         \A p \in Contents(m) : handed'[p] = handed[p],
         m \in accepted' => m \in accepted \/ (\E h \in Handlers : Marking(h, m)') \/ \E i : Waits(i, m)',
         lost \subseteq lost', lapsed \subseteq lapsed', Regrouped(m) => Regrouped(m)'
  PROVE  MessageInv(m)'
  <1>1. (Unhanded(m)' <=> Unhanded(m)) /\ (AtMostOnce(m)' <=> AtMostOnce(m))
    BY DEF Unhanded, AtMostOnce
  <1>2. CameOnce(m) => CameOnce(m)'
    BY <1>1 DEF CameOnce
  <1>3. m.id \in marks => (m.id \in marks' \/ m.id \in lapsed')
    OBVIOUS
  <1>4. MarkedOnce(m) /\ m.id \notin lapsed' => MarkedOnce(m)'
    BY <1>1 DEF MarkedOnce
  <1>5. Arrived(m) => Arrived(m)'
    BY DEF Arrived
  <1>6. Arrives(m) => Arrives(m)'
    <2> SUFFICES ASSUME Arrives(m) PROVE Arrives(m)'
      OBVIOUS
    <2>1. m.album = "" /\ m.id \in marks' => Arrived(m)'
      BY <1>5 DEF Arrives
    <2>2. m \in accepted => Arrived(m)' \/ (\E h \in Handlers : Marking(h, m)') \/ \E i : Waits(i, m)'
      BY <1>5 DEF Arrives
    <2> QED
      BY <2>1, <2>2 DEF Arrives
  <1> QED
    BY <1>2, <1>4, <1>6 DEF MessageInv

(* Deliveries only add up. *)
LEMMA RegroupedStays ==
  ASSUME UpdatesTyped, traffic' = traffic, \A n \in traffic : delivered'[n] \in Nat /\ delivered'[n] >= delivered[n],
         NEW m
  PROVE  Regrouped(m) => Regrouped(m)'
  <1> SUFFICES ASSUME Regrouped(m) PROVE Regrouped(m)'
    OBVIOUS
  <1>1. PICK n \in traffic : m.album # "" /\ n.album = m.album /\ delivered[n] > 1
    BY DEF Regrouped
  <1>2. delivered[n] \in Nat
    BY DEF UpdatesTyped, Messages
  <1>3. \A x, y \in Nat : x >= y /\ y > 1 => x > 1
    OBVIOUS
  <1>4. delivered'[n] > 1
    BY <1>1, <1>2, <1>3
  <1> QED
    BY <1>1, <1>4 DEF Regrouped

(* One handler goes on. *)
LEMMA HandlerGoesOn ==
  ASSUME InboxShapes, NEW h \in Handlers, NEW next, job' = [job EXCEPT ![h] = next], NEW m
  PROVE  /\ \A g \in Handlers : g # h => /\ Works(g, m)' <=> Works(g, m)
                                         /\ Marking(g, m)' <=> Marking(g, m)
                                         /\ Passing(g, m)' <=> Passing(g, m)
         /\ Works(h, m)' <=> m \in next.from /\ next.pc \in Early \cup {"mark"}
         /\ Marking(h, m)' <=> m \in next.from /\ next.pc = "mark"
         /\ Passing(h, m)' <=> m \in next.from /\ next.pc = "manager"
  <1>1. job'[h] = next /\ \A g \in Handlers : g # h => job'[g] = job[g]
    BY DEF InboxShapes
  <1> QED
    BY <1>1 DEF Works, Marking, Passing

(* What stays typed when one handler goes on. *)
LEMMA HandlerTyped ==
  ASSUME InboxShapes, UpdatesTyped, NEW h \in Handlers, NEW next, job' = [job EXCEPT ![h] = next],
         JobFits(next, traffic), traffic' = traffic,
         delivered' \in [Messages -> Nat], handed' \in [Parts -> Nat], albums' = albums
  PROVE  UpdatesTyped'
  <1>1. job'[h] = next /\ \A g \in Handlers : g # h => job'[g] = job[g]
    BY DEF InboxShapes
  <1>2. \A g \in Handlers : JobFits(job'[g], traffic')
    BY <1>1 DEF UpdatesTyped
  <1> QED
    BY <1>2 DEF UpdatesTyped

(* Whoever has a message in hand is before the mark or past it. *)
LEMMA HeldSomewhere ==
  ASSUME UpdatesTyped, NEW h \in Handlers, NEW m \in job[h].from
  PROVE  /\ m \in traffic
         /\ Works(h, m) \/ Passing(h, m)
         /\ job[h].pc # "manager" => Works(h, m)
         /\ job[h].pc = "manager" => Passing(h, m)
         /\ job[h].pc = "mark" => Marking(h, m)
  BY DEF UpdatesTyped, JobFits, Works, Passing, Marking

(* A handler at rest holds nothing. *)
LEMMA RestingFits == JobFits(Resting, traffic) /\ Resting.from = {} /\ Resting.pc = "idle"
  BY DEF JobFits, Resting, Early

(* A delivery: a message that came for the first time was nowhere.         *)
LEMMA TakenUpdates ==
  ASSUME InboxShapes, UpdatesInv, NEW h \in Handlers, NEW n \in traffic, NEW pc \in Early, Taken(h, n, pc)
  PROVE  UpdatesInv'
  <1> DEFINE next == [pc |-> pc, id |-> n.id, parts |-> {}, from |-> {n}]
  <1>0. UpdatesTyped /\ n \in Messages /\ job[h].pc = "idle" /\ job[h].from = {}
    BY Identified DEF UpdatesInv, UpdatesTyped, JobFits, Taken, Free, Early
  <1>1. /\ delivered' = [delivered EXCEPT ![n] = @ + 1]
        /\ UNCHANGED <<traffic, albums, marks, handed, accepted, lapsed, lost>>
        /\ job' = IF n.own THEN job ELSE [job EXCEPT ![h] = next]
    BY DEF Taken
  <1>2. /\ delivered' \in [Messages -> Nat]
        /\ delivered'[n] = delivered[n] + 1 /\ delivered[n] \in Nat
        /\ \A m \in Messages : m # n => delivered'[m] = delivered[m]
    BY <1>0, <1>1 DEF UpdatesTyped
  <1>3. \A m \in traffic : m \in Messages /\ delivered[m] \in Nat /\ delivered'[m] \in Nat
    BY <1>0, <1>2, Identified DEF UpdatesTyped
  <1>4. \A m \in traffic : delivered'[m] >= delivered[m]
    BY <1>2, <1>3
  <1>9. /\ delivered'[n] # 0
        /\ delivered'[n] <= 1 => delivered[n] = 0 /\ delivered[n] <= 1
    <2>1. \A x \in Nat : x + 1 # 0 /\ (x + 1 <= 1 => x = 0 /\ x <= 1)
      OBVIOUS
    <2> QED
      BY <1>2, <2>1
  <1>5. \A m : Regrouped(m) => Regrouped(m)'
    BY <1>0, <1>1, <1>3, <1>4, RegroupedStays
  <1>6. \A m, i : Waits(i, m)' <=> Waits(i, m)
    BY <1>1 DEF Waits
  <1>7. CASE n.own
    <2>1. job' = job
      BY <1>1, <1>7
    <2>2. UpdatesTyped'
      BY <1>0, <1>1, <1>2, <2>1 DEF UpdatesTyped
    <2>3. \A m, g : (Works(g, m)' <=> Works(g, m)) /\ (Marking(g, m)' <=> Marking(g, m)) /\ (Passing(g, m)' <=> Passing(g, m))
      BY <2>1 DEF Works, Marking, Passing
    <2>4. ASSUME NEW m \in traffic, m # n
          PROVE  MessageInv(m)'
      <3>1. MessageInv(m) /\ delivered'[m] = delivered[m]
        BY <1>2, <1>3, <2>4 DEF UpdatesInv
      <3> QED
        BY <1>1, <1>5, <1>6, <2>3, <3>1, Elsewhere
    <2>5. MessageInv(n)'
      <3>1. MessageInv(n)
        BY DEF UpdatesInv
      <3>2. CameOnce(n) /\ delivered[n] = 0 => CameOnce(n)'
        BY <1>1, <1>2, <1>6, <2>3 DEF CameOnce, Unhanded, AtMostOnce
      <3>3. delivered'[n] <= 1 => CameOnce(n)'
        BY <1>9, <3>1, <3>2 DEF MessageInv
      <3>4. MarkedOnce(n) => MarkedOnce(n)'
        BY <1>1, <2>3 DEF MarkedOnce, Unhanded, AtMostOnce
      <3>5. Arrives(n) => Arrives(n)'
        BY <1>1, <1>6, <2>3 DEF Arrives, Arrived
      <3> QED
        BY <1>1, <1>5, <3>1, <3>3, <3>4, <3>5 DEF MessageInv
    <2> QED
      BY <1>1, <2>2, <2>4, <2>5 DEF UpdatesInv
  <1>8. CASE ~n.own
    <2>1. job' = [job EXCEPT ![h] = next]
      BY <1>1, <1>8
    <2>2. next.pc = pc /\ next.from = {n} /\ next.id = n.id /\ pc # "manager" /\ pc # "mark" /\ pc # "idle"
      BY DEF Early
    <2>3. JobFits(next, traffic)
      BY <2>2 DEF JobFits
    <2> HIDE DEF next
    <2>4. UpdatesTyped'
      BY <1>0, <1>1, <1>2, <2>1, <2>3, HandlerTyped DEF UpdatesTyped
    <2>5. \A m : /\ ~Works(h, m) /\ ~Marking(h, m) /\ ~Passing(h, m)
                 /\ Works(h, m)' <=> m = n
                 /\ ~Marking(h, m)' /\ ~Passing(h, m)'
                 /\ \A g \in Handlers : g # h => /\ Works(g, m)' <=> Works(g, m)
                                                 /\ Marking(g, m)' <=> Marking(g, m)
                                                 /\ Passing(g, m)' <=> Passing(g, m)
      <3> SUFFICES ASSUME NEW m
                   PROVE  /\ ~Works(h, m) /\ ~Marking(h, m) /\ ~Passing(h, m)
                          /\ Works(h, m)' <=> m = n
                          /\ ~Marking(h, m)' /\ ~Passing(h, m)'
                          /\ \A g \in Handlers : g # h => /\ Works(g, m)' <=> Works(g, m)
                                                          /\ Marking(g, m)' <=> Marking(g, m)
                                                          /\ Passing(g, m)' <=> Passing(g, m)
        OBVIOUS
      <3>1. ~Works(h, m) /\ ~Marking(h, m) /\ ~Passing(h, m)
        BY <1>0 DEF Works, Marking, Passing
      <3>2. m \in next.from <=> m = n
        BY <2>2
      <3> QED
        BY <2>1, <2>2, <3>1, <3>2, HandlerGoesOn
    <2>6. ASSUME NEW m \in traffic, m # n
          PROVE  MessageInv(m)'
      <3>1. MessageInv(m) /\ delivered'[m] = delivered[m]
        BY <1>2, <1>3, <2>6 DEF UpdatesInv
      <3>2. \A g \in Handlers : /\ Works(g, m)' => Works(g, m)
                                /\ Marking(g, m) => Marking(g, m)'
                                /\ Passing(g, m)' <=> Passing(g, m)
        BY <2>5, <2>6
      <3> QED
        BY <1>1, <1>5, <1>6, <3>1, <3>2, Elsewhere
    <2>7. MessageInv(n)'
      <3>1. MessageInv(n)
        BY DEF UpdatesInv
      <3>2. \A g \in Handlers : Passing(g, n)' <=> Passing(g, n)
        BY <2>5
      <3>3. CameOnce(n) /\ delivered[n] = 0 => CameOnce(n)'
        <4> SUFFICES ASSUME CameOnce(n), delivered[n] = 0 PROVE CameOnce(n)'
          OBVIOUS
        <4>1. n.id \notin marks /\ Unhanded(n) /\ \A i : ~Waits(i, n)
          BY DEF CameOnce
        <4>2. \A g \in Handlers : ~Works(g, n) /\ ~Passing(g, n)
          BY DEF CameOnce
        <4>3. n.id \notin marks' /\ Unhanded(n)' /\ AtMostOnce(n)' /\ \A i : ~Waits(i, n)'
          BY <1>1, <1>6, <4>1 DEF CameOnce, Unhanded, AtMostOnce
        <4>4. \A g \in Handlers : ~Passing(g, n)' /\ (Works(g, n)' <=> g = h)
          BY <2>5, <3>2, <4>2
        <4> QED
          BY <1>9, <4>3, <4>4 DEF CameOnce
      <3>4. delivered'[n] <= 1 => CameOnce(n)'
        BY <1>9, <3>1, <3>3 DEF MessageInv
      <3>5. MarkedOnce(n) => MarkedOnce(n)'
        BY <1>1, <3>2 DEF MarkedOnce, Unhanded, AtMostOnce
      <3>6. Arrives(n) => Arrives(n)'
        <4>1. \A g \in Handlers : Marking(g, n) => Marking(g, n)'
          BY <2>5
        <4> QED
          BY <1>1, <1>6, <3>2, <4>1 DEF Arrives, Arrived
      <3> QED
        BY <1>1, <1>5, <3>1, <3>4, <3>5, <3>6 DEF MessageInv
    <2> QED
      BY <1>1, <2>4, <2>6, <2>7 DEF UpdatesInv
  <1> QED
    BY <1>7, <1>8

(* Work on a message that stays out of the middleware: the handler keeps   *)
(* it, turns it into an update, or returns early.                          *)
LEMMA EarlyUpdates ==
  ASSUME InboxShapes, UpdatesInv, NEW h \in Handlers, NEW next, job[h].pc \in Early,
         job' = [job EXCEPT ![h] = next], JobFits(next, traffic),
         \/ next.from = job[h].from /\ next.pc \in Early /\ accepted' = accepted
         \/ next.from = job[h].from /\ next.pc = "mark" /\ accepted' = accepted \cup job[h].from
         \/ next.from = {} /\ accepted' = accepted,
         UNCHANGED <<traffic, albums, marks, delivered, handed, lapsed, lost>>
  PROVE  UpdatesInv'
  <1>1. UpdatesTyped'
    BY HandlerTyped DEF UpdatesInv, UpdatesTyped
  <1>2. ASSUME NEW m \in traffic
        PROVE  MessageInv(m)'
    <2>1. MessageInv(m) /\ UpdatesTyped
      BY DEF UpdatesInv
    <2>2. \A i : Waits(i, m)' <=> Waits(i, m)
      BY DEF Waits
    <2>3. ~Marking(h, m) /\ ~Passing(h, m) /\ (Works(h, m) <=> m \in job[h].from)
      BY DEF Works, Marking, Passing, Early
    <2>4. /\ ~Passing(h, m)' /\ (Works(h, m)' => Works(h, m))
          /\ m \in accepted' => m \in accepted \/ Marking(h, m)'
      BY <2>3, HandlerGoesOn DEF Early
    <2>5. \A g \in Handlers : /\ Works(g, m)' => Works(g, m)
                              /\ Marking(g, m) => Marking(g, m)'
                              /\ Passing(g, m)' <=> Passing(g, m)
      BY <2>3, <2>4, HandlerGoesOn
    <2>6. Regrouped(m)' <=> Regrouped(m)
      BY DEF Regrouped
    <2> QED
      BY <2>1, <2>2, <2>4, <2>5, <2>6, Elsewhere
  <1> QED
    BY <1>1, <1>2 DEF UpdatesInv

(* What a sequence is with one more element at its end. *)
Longer(s, k, t, e, S) ==
    /\ k = Len(s) /\ t = Append(s, e)
    /\ t \in Seq(S) /\ DOMAIN s = 1..k /\ DOMAIN t = 1..(k + 1)
    /\ \A i \in 1..k : i \in 1..(k + 1) /\ t[i] = s[i]
    /\ \A i \in 1..(k + 1) : i \in 1..k \/ i = k + 1
    /\ k + 1 \in 1..(k + 1) /\ t[k + 1] = e

LEMMA Appended ==
  ASSUME NEW S, NEW s \in Seq(S), NEW e \in S
  PROVE  \E k, t : Longer(s, k, t, e, S)
  <1>1. PICK k, t : k = Len(s) /\ t = Append(s, e)
    OBVIOUS
  <1>2. k \in Nat /\ DOMAIN s = 1..k
    BY <1>1
  <1>3. t \in Seq(S) /\ Len(t) = k + 1 /\ DOMAIN t = 1..(k + 1) /\ t[k + 1] = e /\ \A i \in 1..k : t[i] = s[i]
    BY <1>1, AppendProperties
  <1>4. /\ k + 1 \in 1..(k + 1) /\ \A i \in 1..k : i \in 1..(k + 1)
        /\ \A i \in 1..(k + 1) : i \in 1..k \/ i = k + 1
    BY <1>2
  <1>5. Longer(s, k, t, e, S)
    BY <1>1, <1>2, <1>3, <1>4 DEF Longer
  <1> QED
    BY <1>5

(* albumBuffer.add: the message goes from the handler's hands into the     *)
(* album.                                                                  *)
LEMMA AddUpdates ==
  ASSUME InboxShapes, UpdatesInv, NEW h \in Handlers, NEW n \in traffic, NEW f \in Contents(n),
         job[h].pc \in Early, job[h].from = {n}, job[h].id = n.id, n.album # "",
         job' = [job EXCEPT ![h] = Resting],
         albums' = [albums EXCEPT ![n.album] = Append(@, [id |-> job[h].id, file |-> f, from |-> n])],
         accepted' = accepted \cup job[h].from,
         UNCHANGED <<traffic, marks, delivered, handed, lapsed, lost>>
  PROVE  UpdatesInv'
  <1> DEFINE e == [id |-> n.id, file |-> f, from |-> n]
             a == n.album
  <1>0. UpdatesTyped /\ n \in Messages /\ f \in Parts /\ a \in AlbumIds
    BY Identified DEF UpdatesInv, AlbumIds
  <1>1. e \in Entry /\ EntryFits(e, a, traffic) /\ e.from = n
    BY <1>0 DEF Entry, EntryFits
  <1> HIDE DEF e
  <1>2. albums' = [albums EXCEPT ![a] = Append(@, e)]
    BY DEF e
  <1>3. PICK s \in Seq(Entry) : s = albums[a]
    BY <1>0 DEF UpdatesTyped
  <1>4a. PICK k, t : Longer(s, k, t, e, Entry)
    BY <1>1, <1>3, Appended
  <1>4. /\ k = Len(s) /\ t = Append(s, e)
        /\ t \in Seq(Entry) /\ DOMAIN s = 1..k /\ DOMAIN t = 1..(k + 1)
        /\ \A i \in 1..k : i \in 1..(k + 1) /\ t[i] = s[i]
        /\ \A i \in 1..(k + 1) : i \in 1..k \/ i = k + 1
        /\ k + 1 \in 1..(k + 1) /\ t[k + 1] = e
    BY <1>4a DEF Longer
  <1>5. /\ albums' \in [AlbumIds -> Seq(Entry)] /\ albums'[a] = t
        /\ \A b \in AlbumIds : b # a => albums'[b] = albums[b]
    BY <1>0, <1>2, <1>3, <1>4 DEF UpdatesTyped
  <1>7. \A b \in AlbumIds : \A i \in DOMAIN albums'[b] : EntryFits(albums'[b][i], b, traffic)
    <2>1. ASSUME NEW i \in DOMAIN albums'[a]
          PROVE  EntryFits(albums'[a][i], a, traffic)
      <3>1. i \in 1..k => EntryFits(s[i], a, traffic)
        BY <1>0, <1>3, <1>4 DEF UpdatesTyped
      <3> QED
        BY <1>1, <1>4, <1>5, <2>1, <3>1
    <2> QED
      BY <1>0, <1>5, <2>1, ZenonT(30) DEF UpdatesTyped
  <1>8. UpdatesTyped'
    <2>1. job'[h] = Resting /\ \A g \in Handlers : g # h => job'[g] = job[g]
      BY DEF InboxShapes
    <2>2. \A g \in Handlers : JobFits(job'[g], traffic)
      BY <1>0, <2>1, RestingFits DEF UpdatesTyped
    <2> QED
      BY <1>0, <1>5, <1>7, <2>2 DEF UpdatesTyped
  <1>9. \A m : m # n => \A i : Waits(i, m)' <=> Waits(i, m)
    <2> SUFFICES ASSUME NEW m, m # n, NEW i
                 PROVE  Waits(i, m)' <=> Waits(i, m)
      OBVIOUS
    <2>1. CASE m.album = a
      <3>1. Waits(i, m)' <=> i \in 1..(k + 1) /\ t[i].from = m
        BY <1>0, <1>4, <1>5, <2>1 DEF Waits
      <3>2. Waits(i, m) <=> i \in 1..k /\ s[i].from = m
        BY <1>0, <1>3, <1>4, <2>1 DEF Waits
      <3> QED
        BY <1>1, <1>4, <3>1, <3>2
    <2>2. CASE m.album # a
      BY <1>5, <2>2 DEF Waits
    <2> QED
      BY <2>1, <2>2
  <1>10. /\ Waits(k + 1, n)'
         /\ \A i : Waits(i, n)' => Waits(i, n) \/ i = k + 1
    <2>1. \A i : Waits(i, n)' <=> i \in 1..(k + 1) /\ t[i].from = n
      BY <1>0, <1>4, <1>5 DEF Waits
    <2>2. \A i : Waits(i, n) <=> i \in 1..k /\ s[i].from = n
      BY <1>0, <1>3, <1>4 DEF Waits
    <2> QED
      BY <1>1, <1>4, <2>1, <2>2
  <1>11. \A m : Regrouped(m)' <=> Regrouped(m)
    BY DEF Regrouped
  <1>12. \A m : /\ ~Marking(h, m) /\ ~Passing(h, m) /\ (Works(h, m) <=> m = n)
                /\ ~Works(h, m)' /\ ~Marking(h, m)' /\ ~Passing(h, m)'
                /\ \A g \in Handlers : g # h => /\ Works(g, m)' <=> Works(g, m)
                                                /\ Marking(g, m)' <=> Marking(g, m)
                                                /\ Passing(g, m)' <=> Passing(g, m)
    <2> SUFFICES ASSUME NEW m
                 PROVE  /\ ~Marking(h, m) /\ ~Passing(h, m) /\ (Works(h, m) <=> m = n)
                        /\ ~Works(h, m)' /\ ~Marking(h, m)' /\ ~Passing(h, m)'
                        /\ \A g \in Handlers : g # h => /\ Works(g, m)' <=> Works(g, m)
                                                        /\ Marking(g, m)' <=> Marking(g, m)
                                                        /\ Passing(g, m)' <=> Passing(g, m)
      OBVIOUS
    <2>1. ~Marking(h, m) /\ ~Passing(h, m) /\ (Works(h, m) <=> m = n)
      BY DEF Works, Marking, Passing, Early
    <2> QED
      BY <2>1, RestingFits, HandlerGoesOn
  <1>13. ASSUME NEW m \in traffic, m # n
         PROVE  MessageInv(m)'
    <2>1. MessageInv(m)
      BY DEF UpdatesInv
    <2>2. \A g \in Handlers : /\ Works(g, m)' => Works(g, m)
                              /\ Marking(g, m) => Marking(g, m)'
                              /\ Passing(g, m)' <=> Passing(g, m)
      BY <1>12
    <2>3. m \in accepted' => m \in accepted
      BY <1>13
    <2>4. \A i : Waits(i, m)' <=> Waits(i, m)
      BY <1>9, <1>13
    <2> QED
      BY <1>11, <2>1, <2>2, <2>3, <2>4, Elsewhere
  <1>14. MessageInv(n)'
    <2>1. MessageInv(n)
      BY DEF UpdatesInv
    <2>2. CameOnce(n) => CameOnce(n)'
      <3> SUFFICES ASSUME CameOnce(n) PROVE CameOnce(n)'
        OBVIOUS
      <3>1. Works(h, n) /\ n.id \notin marks /\ Unhanded(n) /\ delivered[n] # 0
        BY <1>12 DEF CameOnce
      <3>2. \A i : ~Waits(i, n)
        BY <3>1 DEF CameOnce
      <3>3. \A g \in Handlers : ~Works(g, n)' /\ ~Passing(g, n)'
        BY <1>12, <3>1 DEF CameOnce
      <3>4. \A i : Waits(i, n)' => i = k + 1
        BY <1>10, <3>2
      <3>5. n.id \notin marks' /\ Unhanded(n)' /\ AtMostOnce(n)' /\ delivered'[n] # 0
        BY <3>1 DEF CameOnce, Unhanded, AtMostOnce
      <3> QED
        BY <3>3, <3>4, <3>5 DEF CameOnce
    <2>3. Arrives(n)'
      <3>1. \E i : Waits(i, n)'
        BY <1>10
      <3> QED
        BY <3>1 DEF Arrives
    <2> QED
      BY <2>1, <2>2, <2>3 DEF MessageInv
  <1> QED
    BY <1>8, <1>13, <1>14 DEF UpdatesInv

(* The timer fires: the messages go from the album into one update.        *)
LEMMA FlushUpdates ==
  ASSUME InboxShapes, UpdatesInv, NEW h \in Handlers, NEW a \in AlbumIds, FlushAlbum(h, a)
  PROVE  UpdatesInv'
  <1> DEFINE s == albums[a]
             from == {s[i].from : i \in DOMAIN s}
             next == [pc |-> "mark", id |-> s[1].id, parts |-> {s[i].file : i \in DOMAIN s}, from |-> from]
  <1>0. /\ UpdatesTyped /\ job[h].pc = "idle" /\ job[h].from = {}
        /\ s # <<>> /\ s \in Seq(Entry) /\ \A i \in DOMAIN s : EntryFits(s[i], a, traffic)
        /\ job' = [job EXCEPT ![h] = next]
        /\ albums' = [albums EXCEPT ![a] = <<>>]
        /\ UNCHANGED <<accepted, traffic, marks, delivered, handed, lapsed, lost>>
    BY DEF UpdatesInv, UpdatesTyped, JobFits, FlushAlbum, Free, Early, Quiet, CollectAlbumFiles, AlbumUpdateId
  <1>1. 1 \in DOMAIN s
    BY <1>0
  <1>2. /\ from \subseteq traffic /\ \A n \in from : n.album = a /\ \E i \in DOMAIN s : s[i].from = n
        /\ s[1].from \in from /\ s[1].id = s[1].from.id
        /\ \A i \in DOMAIN s : s[i].file \in Contents(s[i].from) /\ s[i].from \in from
    BY <1>0, <1>1 DEF EntryFits
  <1>3. next.pc = "mark" /\ next.from = from /\ next.id = s[1].id /\ next.parts = {s[i].file : i \in DOMAIN s}
    OBVIOUS
  <1> HIDE DEF next
  <1>4. JobFits(next, traffic)
    <2>1. next.parts \subseteq UNION {Contents(n) : n \in next.from}
      BY <1>2, <1>3
    <2>2. \A n \in next.from : Contents(n) \cap next.parts # {}
      BY <1>2, <1>3
    <2>3. (\E n \in next.from : next.id = n.id) /\ \A n \in next.from : n.album = a
      BY <1>2, <1>3
    <2> QED
      BY <1>2, <1>3, <2>1, <2>2, <2>3 DEF JobFits, Early
  <1>5. /\ albums' \in [AlbumIds -> Seq(Entry)] /\ albums'[a] = <<>>
        /\ \A b \in AlbumIds : b # a => albums'[b] = albums[b]
    BY <1>0 DEF UpdatesTyped
  <1>6. UpdatesTyped'
    <2>1. job'[h] = next /\ \A g \in Handlers : g # h => job'[g] = job[g]
      BY <1>0 DEF InboxShapes
    <2>2. \A g \in Handlers : JobFits(job'[g], traffic)
      BY <1>0, <1>4, <2>1 DEF UpdatesTyped
    <2>3. \A b \in AlbumIds : \A i \in DOMAIN albums'[b] : EntryFits(albums'[b][i], b, traffic)
      BY <1>0, <1>5 DEF UpdatesTyped
    <2> QED
      BY <1>0, <1>5, <2>2, <2>3 DEF UpdatesTyped
  <1>7. \A m : Regrouped(m)' <=> Regrouped(m)
    BY <1>0 DEF Regrouped
  <1>8. ASSUME NEW m
        PROVE  /\ ~Works(h, m) /\ ~Marking(h, m) /\ ~Passing(h, m)
               /\ (Works(h, m)' <=> m \in from) /\ (Marking(h, m)' <=> m \in from) /\ ~Passing(h, m)'
               /\ \A g \in Handlers : g # h => /\ Works(g, m)' <=> Works(g, m)
                                               /\ Marking(g, m)' <=> Marking(g, m)
                                               /\ Passing(g, m)' <=> Passing(g, m)
    <2>1. ~Works(h, m) /\ ~Marking(h, m) /\ ~Passing(h, m)
      BY <1>0 DEF Works, Marking, Passing
    <2> HIDE DEF from
    <2> QED
      BY <1>0, <1>3, <2>1, HandlerGoesOn
  <1>9. \A m \in from : \A i : ~Waits(i, m)'
    BY <1>2, <1>5 DEF Waits
  <1>10. \A m \in from : \E i : Waits(i, m)
    BY <1>2 DEF Waits
  <1>11. \A m : m \notin from => \A i : Waits(i, m)' <=> Waits(i, m)
    BY <1>2, <1>5, SMTT(30) DEF Waits
  <1> HIDE DEF from
  <1>12. ASSUME NEW m \in traffic, m \notin from
         PROVE  MessageInv(m)'
    <2>1. MessageInv(m)
      BY DEF UpdatesInv
    <2>2. \A g \in Handlers : /\ Works(g, m)' => Works(g, m)
                              /\ Marking(g, m) => Marking(g, m)'
                              /\ Passing(g, m)' <=> Passing(g, m)
      BY <1>8, <1>12
    <2>3. \A i : Waits(i, m)' <=> Waits(i, m)
      BY <1>11, <1>12
    <2> QED
      BY <1>0, <1>7, <2>1, <2>2, <2>3, Elsewhere
  <1>13. ASSUME NEW m \in traffic, m \in from
         PROVE  MessageInv(m)'
    <2>1. MessageInv(m) /\ m.album # ""
      BY <1>2, <1>13 DEF UpdatesInv, AlbumIds
    <2>2. CameOnce(m) => CameOnce(m)'
      <3> SUFFICES ASSUME CameOnce(m) PROVE CameOnce(m)'
        OBVIOUS
      <3>1. PICK i : Waits(i, m)
        BY <1>10, <1>13
      <3>2. m.id \notin marks /\ Unhanded(m) /\ delivered[m] # 0 /\ \A g \in Handlers : ~Works(g, m) /\ ~Passing(g, m)
        BY <3>1 DEF CameOnce
      <3>3. m.id \notin marks' /\ Unhanded(m)' /\ AtMostOnce(m)' /\ delivered'[m] # 0
        BY <1>0, <3>2 DEF CameOnce, Unhanded, AtMostOnce
      <3>4. \A g \in Handlers : (Works(g, m)' <=> g = h) /\ ~Passing(g, m)'
        BY <1>8, <1>13, <3>2
      <3>5. \A k : ~Waits(k, m)'
        BY <1>9, <1>13
      <3> QED
        BY <3>3, <3>4, <3>5 DEF CameOnce
    <2>3. Arrives(m)'
      BY <1>8, <1>13, <2>1 DEF Arrives
    <2> QED
      BY <1>0, <2>1, <2>2, <2>3 DEF MessageInv
  <1> QED
    BY <1>0, <1>6, <1>12, <1>13 DEF UpdatesInv

(* A handler changes its pc only. *)
LEMMA GoToJob ==
  ASSUME InboxShapes, NEW h \in Handlers, NEW pc, GoTo(h, pc)
  PROVE  job' = [job EXCEPT ![h] = [pc |-> pc, id |-> job[h].id, parts |-> job[h].parts, from |-> job[h].from]]
  <1> DEFINE next == [job[h] EXCEPT !.pc = pc]
  <1>1. job' = [job EXCEPT ![h] = next] /\ JobShape(job[h])
    BY DEF GoTo, InboxShapes
  <1>2. next = [pc |-> pc, id |-> job[h].id, parts |-> job[h].parts, from |-> job[h].from]
    BY <1>1 DEF JobShape
  <1> QED
    BY <1>1, <1>2

(* A handler inside or before the registry keeps its message.              *)
LEMMA StaysEarly ==
  ASSUME InboxShapes, UpdatesInv, NEW h \in Handlers, NEW pc \in Early, job[h].pc \in Early, GoTo(h, pc),
         UNCHANGED <<traffic, albums, marks, delivered, handed, accepted, lapsed, lost>>
  PROVE  UpdatesInv'
  <1> DEFINE next == [pc |-> pc, id |-> job[h].id, parts |-> job[h].parts, from |-> job[h].from]
  <1>1. job' = [job EXCEPT ![h] = next]
    BY GoToJob
  <1>2. next.pc = pc /\ next.id = job[h].id /\ next.from = job[h].from
    OBVIOUS
  <1> HIDE DEF next
  <1>3. \E m \in traffic : job[h].from = {m} /\ job[h].id = m.id
    BY DEF UpdatesInv, UpdatesTyped, JobFits
  <1>4. JobFits(next, traffic)
    BY <1>2, <1>3 DEF JobFits, Early
  <1> QED
    BY <1>1, <1>2, <1>4, EarlyUpdates

(* The message a handler works on before the middleware. *)
LEMMA InHand ==
  ASSUME UpdatesInv, NEW h \in Handlers, job[h].pc \in Early
  PROVE  Message(h) \in traffic /\ job[h].from = {Message(h)} /\ job[h].id = Message(h).id
  <1>1. PICK m \in traffic : job[h].from = {m} /\ job[h].id = m.id
    BY DEF UpdatesInv, UpdatesTyped, JobFits
  <1>2. Message(h) = m
    BY <1>1 DEF Message
  <1> QED
    BY <1>1, <1>2

(* An update is built of the message in hand, or the handler returns.      *)
LEMMA BuildUpdates ==
  ASSUME InboxShapes, UpdatesInv, NEW h \in Handlers, job[h].pc \in Early,
         NEW parts, parts \subseteq Contents(Message(h)), Build(h, parts),
         UNCHANGED <<traffic, albums, marks, delivered, handed, lapsed, lost>>
  PROVE  UpdatesInv'
  <1>0. PICK n : n = Message(h)
    OBVIOUS
  <1>1. n \in traffic /\ job[h].from = {n} /\ job[h].id = n.id /\ parts \subseteq Contents(n)
    BY <1>0, InHand
  <1>2. CASE parts = {}
    <2>1. job' = [job EXCEPT ![h] = Resting] /\ accepted' = accepted
      BY <1>2 DEF Build
    <2> QED
      BY <2>1, RestingFits, EarlyUpdates
  <1>3. CASE parts # {}
    <2> DEFINE marking == [job[h] EXCEPT !.pc = "mark"]
               next == [marking EXCEPT !.parts = parts]
    <2>1. job' = [job EXCEPT ![h] = next] /\ JobShape(job[h]) /\ accepted' = accepted \cup job[h].from
      BY <1>3 DEF InboxShapes, Build
    <2>2. marking = [pc |-> "mark", id |-> job[h].id, parts |-> job[h].parts, from |-> job[h].from]
      BY <2>1 DEF JobShape
    <2> HIDE DEF marking
    <2>3. next = [pc |-> "mark", id |-> job[h].id, parts |-> parts, from |-> job[h].from]
      BY <2>2
    <2>4. next.pc = "mark" /\ next.id = n.id /\ next.parts = parts /\ next.from = {n}
      BY <1>1, <2>3
    <2> HIDE DEF next
    <2>5. /\ next.parts \subseteq UNION {Contents(m) : m \in next.from}
          /\ \A m \in next.from : Contents(m) \cap next.parts # {}
      BY <1>1, <1>3, <2>4
    <2>6. JobFits(next, traffic)
      BY <1>1, <2>4, <2>5 DEF JobFits, Early
    <2> QED
      BY <1>1, <2>1, <2>4, <2>6, EarlyUpdates
  <1> QED
    BY <1>2, <1>3

(* The steps of the chat registration, of the input and of the files.      *)
LEMMA InputUpdates ==
  ASSUME InboxShapes, UpdatesInv, NEW h \in Handlers,
         EnsureChatRegistered(h) \/ ChatRegistered(h) \/ InputGiven(h) \/ CollectInput(h) \/ StoreFiles(h)
  PROVE  UpdatesInv'
  <1>0. /\ {"collect", "registering", "store"} \subseteq Early
        /\ Message(h).id \in Contents(Message(h)) /\ TextInput(Message(h)) \subseteq Contents(Message(h))
        /\ \A kept \in Kept(Message(h)) : kept \subseteq Contents(Message(h))
    BY DEF Early, Contents, TextInput, Kept
  <1>1. CASE EnsureChatRegistered(h)
    <2>1. /\ job[h].pc \in Early
          /\ GoTo(h, "collect") \/ GoTo(h, "registering")
          /\ UNCHANGED <<traffic, albums, marks, delivered, handed, accepted, lapsed, lost>>
      BY <1>1 DEF EnsureChatRegistered, EnsureVkChat, EnsureMattermostChat, Collected, Early
    <2> QED
      BY <1>0, <2>1, StaysEarly
  <1>2. CASE ChatRegistered(h)
    <2>1. /\ job[h].pc \in Early /\ GoTo(h, "collect")
          /\ UNCHANGED <<traffic, albums, marks, delivered, handed, accepted, lapsed, lost>>
      BY <1>2 DEF ChatRegistered, Collected, Early
    <2> QED
      BY <1>0, <2>1, StaysEarly
  <1>3. CASE InputGiven(h)
    <2>1. /\ job[h].pc \in Early /\ Build(h, {Message(h).id})
          /\ UNCHANGED <<traffic, albums, marks, delivered, handed, lapsed, lost>>
      BY <1>3 DEF InputGiven, Quiet, Early
    <2> QED
      BY <1>0, <2>1, BuildUpdates
  <1>4. CASE CollectInput(h)
    <2>1. /\ job[h].pc \in Early
          /\ UNCHANGED <<traffic, albums, marks, delivered, handed, lapsed, lost>>
      BY <1>4 DEF CollectInput, Quiet, Early
    <2>2. CASE Build(h, {Message(h).id})
      BY <1>0, <2>1, <2>2, BuildUpdates
    <2>3. CASE GoTo(h, "store") /\ accepted' = accepted
      BY <1>0, <2>1, <2>3, StaysEarly
    <2> QED
      BY <1>4, <2>2, <2>3 DEF CollectInput
  <1>5. CASE StoreFiles(h)
    <2>1. job[h].pc \in Early /\ UNCHANGED <<traffic, marks, delivered, handed, lapsed, lost>>
      BY <1>5 DEF StoreFiles, Quiet, Early
    <2>2. \/ \E parts : parts \subseteq Contents(Message(h)) /\ Build(h, parts) /\ UNCHANGED albums
          \/ \E f \in Contents(Message(h)) : Message(h).album # "" /\ Add(h, f)
      <3>1. CASE StoreTelegramFile(h)
        <4>1. PICK kept \in Kept(Message(h)) :
                IF Message(h).album # "" /\ kept # {}
                THEN Add(h, CHOOSE f \in kept : TRUE)
                ELSE Build(h, kept) /\ UNCHANGED albums
          BY <3>1 DEF StoreTelegramFile
        <4>2. kept \subseteq Contents(Message(h))
          BY <1>0
        <4>3. kept # {} => (CHOOSE f \in kept : TRUE) \in kept
          OBVIOUS
        <4> QED
          BY <4>1, <4>2, <4>3
      <3>2. CASE DownloadAndStore(h) \/ CollectPostFiles(h) \/ CollectAttachments(h)
        <4>1. PICK kept \in Kept(Message(h)) :
                Build(h, IF kept # {} THEN kept ELSE TextInput(Message(h))) /\ UNCHANGED albums
          BY <3>2 DEF DownloadAndStore, CollectPostFiles, CollectAttachments
        <4>2. (IF kept # {} THEN kept ELSE TextInput(Message(h))) \subseteq Contents(Message(h))
          BY <1>0
        <4> QED
          BY <4>1, <4>2
      <3> QED
        BY <1>5, <3>1, <3>2 DEF StoreFiles
    <2>3. CASE \E parts : parts \subseteq Contents(Message(h)) /\ Build(h, parts) /\ UNCHANGED albums
      BY <2>1, <2>3, BuildUpdates
    <2>4. CASE \E f \in Contents(Message(h)) : Message(h).album # "" /\ Add(h, f)
      <3>1. PICK n : n = Message(h)
        OBVIOUS
      <3>2. PICK f \in Contents(n) : n.album # "" /\ Add(h, f)
        BY <2>4, <3>1
      <3>3. n \in traffic /\ job[h].from = {n} /\ job[h].id = n.id
        BY <2>1, <3>1, InHand
      <3>4. /\ albums' = [albums EXCEPT ![n.album] = Append(@, [id |-> job[h].id, file |-> f, from |-> n])]
            /\ job' = [job EXCEPT ![h] = Resting] /\ accepted' = accepted \cup job[h].from
        BY <3>1, <3>2 DEF Add
      <3> QED
        BY <2>1, <3>2, <3>3, <3>4, AddUpdates
    <2> QED
      BY <2>2, <2>3, <2>4
  <1> QED
    BY <1>1, <1>2, <1>3, <1>4, <1>5

(* A handler in the middleware holds one message, or photos of one album.  *)
LEMMA MarkedJob ==
  ASSUME UpdatesInv, NEW h \in Handlers, job[h].pc = "mark"
  PROVE  /\ \E n \in job[h].from : job[h].id = n.id
         /\ job[h].from \subseteq traffic
         /\ \A m : ~Passing(h, m) /\ (Marking(h, m) <=> m \in job[h].from) /\ (Works(h, m) <=> m \in job[h].from)
         /\ \A m, n \in job[h].from : m.album = "" => m = n
         /\ \A m, n \in job[h].from : m.album = n.album
  <1>1. /\ \E n \in job[h].from : job[h].id = n.id
        /\ job[h].from \subseteq traffic
        /\ (\E n : job[h].from = {n}) \/ (\E a \in AlbumIds : \A n \in job[h].from : n.album = a)
    BY DEF UpdatesInv, UpdatesTyped, JobFits
  <1>2. \A m : ~Passing(h, m) /\ (Marking(h, m) <=> m \in job[h].from) /\ (Works(h, m) <=> m \in job[h].from)
    BY DEF Works, Marking, Passing
  <1>3. \A a \in AlbumIds : a # ""
    BY DEF AlbumIds
  <1> QED
    BY <1>1, <1>2, <1>3

(* Marked for the first time, or past a Redis that failed.                 *)
LEMMA PassUpdates ==
  ASSUME InboxShapes, UpdatesInv, NEW h \in Handlers, job[h].pc = "mark", GoTo(h, "manager"),
         UNCHANGED <<traffic, albums, delivered, handed, accepted, lost>>,
         \/ job[h].id \notin marks /\ marks' = marks \cup {job[h].id} /\ lapsed' = lapsed
         \/ marks' = marks /\ lapsed' = lapsed \cup {job[h].id}
  PROVE  UpdatesInv'
  <1> DEFINE next == [pc |-> "manager", id |-> job[h].id, parts |-> job[h].parts, from |-> job[h].from]
  <1>1. job' = [job EXCEPT ![h] = next]
    BY GoToJob
  <1>2. next.pc = "manager" /\ next.id = job[h].id /\ next.parts = job[h].parts /\ next.from = job[h].from
    OBVIOUS
  <1> HIDE DEF next
  <1>3. JobFits(next, traffic)
    <2>1. JobFits(job[h], traffic)
      BY DEF UpdatesInv, UpdatesTyped
    <2> QED
      BY <1>2, <2>1, SMTT(30) DEF JobFits, Early
  <1>4. UpdatesTyped'
    BY <1>1, <1>3, HandlerTyped DEF UpdatesInv, UpdatesTyped
  <1>5. PICK n \in job[h].from : job[h].id = n.id
    BY MarkedJob
  <1>6. n \in traffic /\ UpdatesTyped
    BY <1>5, MarkedJob DEF UpdatesInv
  <1>7. \A m : /\ Works(h, m) <=> m \in job[h].from
               /\ (Marking(h, m) <=> m \in job[h].from) /\ ~Passing(h, m)
               /\ ~Works(h, m)' /\ ~Marking(h, m)' /\ (Passing(h, m)' <=> m \in job[h].from)
    BY <1>1, <1>2, MarkedJob, HandlerGoesOn DEF Early
  <1>8. \A m : \A g \in Handlers : g # h => /\ Works(g, m)' <=> Works(g, m)
                                            /\ Marking(g, m)' <=> Marking(g, m)
                                            /\ Passing(g, m)' <=> Passing(g, m)
    BY <1>1, HandlerGoesOn
  <1>9. \A m : (Regrouped(m)' <=> Regrouped(m)) /\ (Unhanded(m)' <=> Unhanded(m)) /\ (AtMostOnce(m)' <=> AtMostOnce(m))
    BY DEF Regrouped, Unhanded, AtMostOnce
  <1>10. \A m : \A i : Waits(i, m)' <=> Waits(i, m)
    BY DEF Waits
  <1>11. ASSUME NEW m \in traffic, m \notin job[h].from
         PROVE  MessageInv(m)'
    <2>1. MessageInv(m) /\ m.id # n.id
      BY <1>5, <1>6, <1>11, Identified DEF UpdatesInv
    <2>2. \A g \in Handlers : /\ Works(g, m)' => Works(g, m)
                              /\ Marking(g, m) => Marking(g, m)'
                              /\ Passing(g, m)' <=> Passing(g, m)
      BY <1>7, <1>8, <1>11
    <2>3. (m.id \in marks' <=> m.id \in marks) /\ lapsed \subseteq lapsed'
      BY <1>5, <2>1
    <2> QED
      BY <1>9, <1>10, <2>1, <2>2, <2>3, Elsewhere
  <1>12. ASSUME NEW m \in traffic, m \in job[h].from
         PROVE  MessageInv(m)'
    <2>1. MessageInv(m) /\ Works(h, m) /\ Passing(h, m)' /\ ~Passing(h, m)
      BY <1>7, <1>12, MarkedJob DEF UpdatesInv
    <2>2. CameOnce(m) => CameOnce(m)'
      <3> SUFFICES ASSUME CameOnce(m) PROVE CameOnce(m)'
        OBVIOUS
      <3>1. /\ Unhanded(m) /\ AtMostOnce(m) /\ delivered[m] # 0 /\ \A i : ~Waits(i, m)
            /\ \A g \in Handlers : g # h => ~Works(g, m) /\ ~Passing(g, m)
        BY <2>1 DEF CameOnce
      <3>2. \A g \in Handlers : ~Works(g, m)' /\ (Passing(g, m)' => g = h)
        BY <1>7, <1>8, <3>1
      <3> QED
        BY <1>9, <1>10, <3>1, <3>2 DEF CameOnce
    <2>3. m.album = "" /\ m.id \notin lapsed' => MarkedOnce(m)'
      <3> SUFFICES ASSUME m.album = "", m.id \notin lapsed' PROVE MarkedOnce(m)'
        OBVIOUS
      <3>1. m = n
        BY <1>5, <1>12, MarkedJob
      <3>2. m.id \notin marks /\ m.id \in marks' /\ m.id \notin lapsed
        BY <1>5, <3>1
      <3>3. Unhanded(m) /\ AtMostOnce(m) /\ \A g \in Handlers : ~Passing(g, m)
        BY <2>1, <3>2 DEF MessageInv, MarkedOnce
      <3>4. \A g \in Handlers : Passing(g, m)' => g = h
        BY <1>8, <3>3
      <3> QED
        BY <1>9, <3>2, <3>3, <3>4 DEF MarkedOnce
    <2>4. Arrives(m)'
      BY <2>1 DEF Arrives, Arrived
    <2> QED
      BY <1>9, <2>1, <2>2, <2>3, <2>4 DEF MessageInv
  <1> QED
    BY <1>4, <1>11, <1>12 DEF UpdatesInv

(* A duplicate returns: what it came of arrived already.                   *)
LEMMA DuplicateUpdates ==
  ASSUME InboxShapes, UpdatesInv, NEW h \in Handlers, job[h].pc = "mark", job[h].id \in marks,
         job' = [job EXCEPT ![h] = Resting],
         UNCHANGED <<traffic, albums, delivered, handed, accepted, lost, marks, lapsed>>
  PROVE  UpdatesInv'
  <1>1. UpdatesTyped'
    BY RestingFits, HandlerTyped DEF UpdatesInv, UpdatesTyped
  <1>2. PICK n \in job[h].from : job[h].id = n.id
    BY MarkedJob
  <1>3. n \in traffic /\ UpdatesTyped
    BY <1>2, MarkedJob DEF UpdatesInv
  <1>4. \A m : /\ Works(h, m) <=> m \in job[h].from
               /\ Marking(h, m) <=> m \in job[h].from
               /\ ~Passing(h, m) /\ ~Works(h, m)' /\ ~Marking(h, m)' /\ ~Passing(h, m)'
    BY RestingFits, MarkedJob, HandlerGoesOn
  <1>5. \A m : \A g \in Handlers : g # h => /\ Works(g, m)' <=> Works(g, m)
                                            /\ Marking(g, m)' <=> Marking(g, m)
                                            /\ Passing(g, m)' <=> Passing(g, m)
    BY HandlerGoesOn
  <1>6. \A m : (Regrouped(m)' <=> Regrouped(m)) /\ (Unhanded(m)' <=> Unhanded(m)) /\ (AtMostOnce(m)' <=> AtMostOnce(m))
    BY DEF Regrouped, Unhanded, AtMostOnce
  <1>7. \A m : \A i : Waits(i, m)' <=> Waits(i, m)
    BY DEF Waits
  <1>8. ASSUME NEW m \in traffic, m \notin job[h].from
        PROVE  MessageInv(m)'
    <2>1. MessageInv(m)
      BY DEF UpdatesInv
    <2>2. \A g \in Handlers : /\ Works(g, m)' => Works(g, m)
                              /\ Marking(g, m) => Marking(g, m)'
                              /\ Passing(g, m)' <=> Passing(g, m)
      BY <1>4, <1>5, <1>8
    <2> QED
      BY <1>6, <1>7, <2>1, <2>2, Elsewhere
  <1>9. ASSUME NEW m \in traffic, m \in job[h].from
        PROVE  MessageInv(m)'
    <2>1. MessageInv(m) /\ Works(h, m) /\ \A g \in Handlers : Passing(g, m)' <=> Passing(g, m)
      BY <1>4, <1>5, <1>9 DEF UpdatesInv
    <2>2. CameOnce(m) => CameOnce(m)'
      <3> SUFFICES ASSUME CameOnce(m) PROVE CameOnce(m)'
        OBVIOUS
      <3>1. /\ AtMostOnce(m) /\ delivered[m] # 0 /\ \A i : ~Waits(i, m)
            /\ \A g \in Handlers : g # h => ~Works(g, m) /\ ~Passing(g, m)
        BY <2>1 DEF CameOnce
      <3>2. \A g \in Handlers : ~Works(g, m)' /\ ~Passing(g, m)'
        BY <1>4, <1>5, <3>1
      <3> QED
        BY <1>6, <1>7, <3>1, <3>2 DEF CameOnce
    <2>3. MarkedOnce(m) => MarkedOnce(m)'
      BY <1>6, <2>1 DEF MarkedOnce
    <2>4. Arrived(m) => Arrived(m)'
      BY <2>1 DEF Arrived
    <2>5. ~Regrouped(m) => Arrives(m)'
      <3> SUFFICES ASSUME ~Regrouped(m) PROVE Arrives(m)'
        OBVIOUS
      <3>1. CASE m.album = ""
        <4>1. m = n
          BY <1>2, <1>9, <3>1, MarkedJob
        <4>2. Arrived(m)
          BY <1>2, <2>1, <3>1, <4>1 DEF MessageInv, Arrives
        <4> QED
          BY <2>4, <4>2 DEF Arrives
      <3>2. CASE m.album # ""
        <4>0. \A x, y \in job[h].from : x.album = y.album
          BY MarkedJob
        <4>1. n.album = m.album
          BY <1>2, <1>9, <4>0
        <4>2. ~(delivered[n] > 1) /\ delivered[n] \in Nat
          BY <1>3, <3>2, <4>1, Identified DEF Regrouped, UpdatesTyped
        <4>3. \A x \in Nat : ~(x > 1) => x <= 1
          OBVIOUS
        <4>4. CameOnce(n)
          BY <1>3, <4>2, <4>3 DEF UpdatesInv, MessageInv
        <4>5. n.id \notin marks
          BY <1>2, <1>4, <4>4 DEF CameOnce
        <4> QED
          BY <1>2, <4>5
      <3> QED
        BY <3>1, <3>2
    <2> QED
      BY <1>6, <2>1, <2>2, <2>3, <2>5 DEF MessageInv
  <1> QED
    BY <1>1, <1>8, <1>9 DEF UpdatesInv

(* The manager gets what an update carries, once.                          *)
LEMMA OnUpdateUpdates ==
  ASSUME InboxShapes, UpdatesInv, NEW h \in Handlers, OnUpdate(h)
  PROVE  UpdatesInv'
  <1>0. /\ UpdatesTyped /\ job[h].pc = "manager"
        /\ handed' = [p \in Parts |-> IF p \in job[h].parts THEN handed[p] + 1 ELSE handed[p]]
        /\ job' = [job EXCEPT ![h] = Resting]
        /\ UNCHANGED <<traffic, albums, marks, delivered, accepted, lapsed, lost>>
    BY DEF OnUpdate, UpdatesInv
  <1>1. /\ job[h].from \subseteq traffic
        /\ job[h].parts \subseteq UNION {Contents(n) : n \in job[h].from}
        /\ \A n \in job[h].from : Contents(n) \cap job[h].parts # {}
    BY <1>0 DEF UpdatesTyped, JobFits
  <1>2. handed' \in [Parts -> Nat]
    BY <1>0 DEF UpdatesTyped
  <1>3. UpdatesTyped'
    BY <1>0, <1>2, RestingFits, HandlerTyped DEF UpdatesTyped
  <1>4. \A m : /\ ~Works(h, m) /\ ~Marking(h, m) /\ (Passing(h, m) <=> m \in job[h].from)
               /\ ~Works(h, m)' /\ ~Marking(h, m)' /\ ~Passing(h, m)'
    <2>1. \A m : ~Works(h, m) /\ ~Marking(h, m) /\ (Passing(h, m) <=> m \in job[h].from)
      BY <1>0 DEF Works, Marking, Passing, Early
    <2> QED
      BY <1>0, <2>1, RestingFits, HandlerGoesOn
  <1>5. \A m : \A g \in Handlers : g # h => /\ Works(g, m)' <=> Works(g, m)
                                            /\ Marking(g, m)' <=> Marking(g, m)
                                            /\ Passing(g, m)' <=> Passing(g, m)
    BY <1>0, HandlerGoesOn
  <1>6. \A m : Regrouped(m)' <=> Regrouped(m)
    BY <1>0 DEF Regrouped
  <1>7. \A m : \A i : Waits(i, m)' <=> Waits(i, m)
    BY <1>0 DEF Waits
  <1>8. ASSUME NEW m \in traffic, m \notin job[h].from
        PROVE  MessageInv(m)'
    <2>1. MessageInv(m) /\ Contents(m) \subseteq Parts
      BY <1>0, Identified DEF UpdatesInv
    <2>2. \A p \in Contents(m) : p \notin job[h].parts
      BY <1>0, <1>1, <1>8, Identified
    <2>3. \A p \in Contents(m) : handed'[p] = handed[p]
      BY <1>0, <2>1, <2>2
    <2>4. \A g \in Handlers : /\ Works(g, m)' => Works(g, m)
                              /\ Marking(g, m) => Marking(g, m)'
                              /\ Passing(g, m)' <=> Passing(g, m)
      BY <1>4, <1>5, <1>8
    <2> QED
      BY <1>0, <1>6, <1>7, <2>1, <2>3, <2>4, Elsewhere
  <1>9. ASSUME NEW m \in traffic, m \in job[h].from
        PROVE  MessageInv(m)'
    <2>1. MessageInv(m) /\ Passing(h, m) /\ Contents(m) \subseteq Parts
      BY <1>0, <1>4, <1>9, Identified DEF UpdatesInv
    <2>2. Unhanded(m) => AtMostOnce(m)'
      BY <1>0, <2>1 DEF Unhanded, AtMostOnce
    <2>3. CameOnce(m) => CameOnce(m)'
      <3> SUFFICES ASSUME CameOnce(m) PROVE CameOnce(m)'
        OBVIOUS
      <3>1. /\ Unhanded(m) /\ delivered[m] # 0 /\ \A i : ~Waits(i, m)
            /\ \A g \in Handlers : g # h => ~Works(g, m) /\ ~Passing(g, m)
        BY <2>1 DEF CameOnce
      <3>2. \A g \in Handlers : ~Works(g, m)' /\ ~Passing(g, m)'
        BY <1>4, <1>5, <3>1
      <3>3. delivered'[m] # 0 /\ \A i : ~Waits(i, m)'
        BY <1>0, <1>7, <3>1
      <3> QED
        BY <2>2, <3>1, <3>2, <3>3 DEF CameOnce
    <2>4. MarkedOnce(m) => MarkedOnce(m)'
      <3> SUFFICES ASSUME MarkedOnce(m) PROVE MarkedOnce(m)'
        OBVIOUS
      <3>1. Unhanded(m) /\ m.id \in marks' /\ \A g \in Handlers : g # h => ~Passing(g, m)
        BY <1>0, <2>1 DEF MarkedOnce
      <3>2. \A g \in Handlers : ~Passing(g, m)'
        BY <1>4, <1>5, <3>1
      <3> QED
        BY <2>2, <3>1, <3>2 DEF MarkedOnce
    <2>5. Arrives(m)'
      <3>1. PICK p \in Contents(m) : p \in job[h].parts
        BY <1>1, <1>9
      <3>2. PICK k \in Nat : k = handed[p]
        BY <1>0, <2>1 DEF UpdatesTyped
      <3>3. handed'[p] = k + 1 /\ k + 1 >= 1
        BY <1>0, <2>1, <3>1, <3>2
      <3>4. Arrived(m)'
        BY <3>3 DEF Arrived
      <3> QED
        BY <3>4 DEF Arrives
    <2> QED
      BY <1>0, <1>6, <2>1, <2>3, <2>4, <2>5 DEF MessageInv
  <1> QED
    BY <1>0, <1>3, <1>8, <1>9 DEF UpdatesInv

(* A mark that expires is a lapsed one. *)
LEMMA MarkExpiresUpdates ==
  ASSUME InboxShapes, UpdatesInv, MarkExpires
  PROVE  UpdatesInv'
  <1>1. PICK id \in marks : marks' = marks \ {id} /\ lapsed' = lapsed \cup {id}
    BY DEF MarkExpires
  <1>2. UNCHANGED <<traffic, job, albums, delivered, handed, accepted, lost>>
    BY DEF MarkExpires
  <1>3. UpdatesTyped'
    BY <1>2 DEF UpdatesInv, UpdatesTyped
  <1>4. ASSUME NEW m \in traffic
        PROVE  MessageInv(m)'
    <2>1. MessageInv(m)
      BY DEF UpdatesInv
    <2>2. \A g \in Handlers : /\ Works(g, m)' <=> Works(g, m)
                              /\ Marking(g, m)' <=> Marking(g, m)
                              /\ Passing(g, m)' <=> Passing(g, m)
      BY <1>2 DEF Works, Marking, Passing
    <2>3. (\A i : Waits(i, m)' <=> Waits(i, m)) /\ (Regrouped(m)' <=> Regrouped(m))
      BY <1>2 DEF Waits, Regrouped
    <2>4. (m.id \in marks' => m.id \in marks) /\ (m.id \in marks => m.id \in marks' \/ m.id \in lapsed')
      BY <1>1
    <2> QED
      BY <1>1, <1>2, <2>1, <2>2, <2>3, <2>4, Elsewhere
  <1> QED
    BY <1>2, <1>3, <1>4 DEF UpdatesInv

(* A restart: whatever was in memory is lost.                              *)
LEMMA RestartUpdates ==
  ASSUME InboxShapes, UpdatesInv, Restart
  PROVE  UpdatesInv'
  <1>1. /\ job' = [h \in Handlers |-> Resting] /\ albums' = [a \in AlbumIds |-> <<>>]
        /\ lost' = lost \cup (UNION {job[h].from : h \in Handlers})
                        \cup (UNION {CollectAlbumFiles(albums[a]).from : a \in AlbumIds})
        /\ UNCHANGED <<traffic, marks, delivered, handed, accepted, lapsed>>
    BY DEF Restart
  <1>2. UpdatesTyped'
    <2>1. \A h \in Handlers : JobFits(job'[h], traffic')
      BY <1>1, RestingFits
    <2>2. albums' \in [AlbumIds -> Seq(Entry)] /\ \A a \in AlbumIds : \A i \in DOMAIN albums'[a] : FALSE
      BY <1>1
    <2> QED
      BY <1>1, <2>1, <2>2 DEF UpdatesInv, UpdatesTyped
  <1>3. ASSUME NEW m \in traffic
        PROVE  MessageInv(m)'
    <2>1. MessageInv(m)
      BY DEF UpdatesInv
    <2>2. \A h \in Handlers : ~Works(h, m)' /\ ~Marking(h, m)' /\ ~Passing(h, m)'
      BY <1>1, RestingFits DEF Works, Marking, Passing
    <2>3. \A i : ~Waits(i, m)'
      BY <1>1 DEF Waits
    <2>4. (Regrouped(m)' <=> Regrouped(m)) /\ (Unhanded(m)' <=> Unhanded(m)) /\ (AtMostOnce(m)' <=> AtMostOnce(m))
      BY <1>1 DEF Regrouped, Unhanded, AtMostOnce
    <2>5. CameOnce(m) => CameOnce(m)'
      BY <1>1, <2>2, <2>3, <2>4 DEF CameOnce
    <2>6. MarkedOnce(m) => MarkedOnce(m)'
      BY <1>1, <2>2, <2>4 DEF MarkedOnce
    <2>7. \A h \in Handlers : m \in job[h].from => m \in lost'
      BY <1>1
    <2>8. \A i : Waits(i, m) => m \in lost'
      <3> SUFFICES ASSUME NEW i, Waits(i, m) PROVE m \in lost'
        OBVIOUS
      <3>1. m.album \in AlbumIds /\ i \in DOMAIN albums[m.album] /\ albums[m.album][i].from = m
        BY DEF Waits
      <3>2. m \in CollectAlbumFiles(albums[m.album]).from
        BY <3>1 DEF CollectAlbumFiles
      <3> QED
        BY <1>1, <3>1, <3>2
    <2>9. Arrived(m) => Arrived(m)'
      BY <1>1, <2>7 DEF Arrived, Passing
    <2>10. Arrives(m) => Arrives(m)'
      <3> SUFFICES ASSUME Arrives(m) PROVE Arrives(m)'
        OBVIOUS
      <3>1. (\E h \in Handlers : Marking(h, m)) \/ (\E i : Waits(i, m)) => m \in lost'
        BY <2>7, <2>8 DEF Marking
      <3>2. m \in lost' => Arrived(m)'
        BY DEF Arrived
      <3> QED
        BY <1>1, <2>9, <3>1, <3>2 DEF Arrives
    <2> QED
      BY <1>1, <2>1, <2>4, <2>5, <2>6, <2>10 DEF MessageInv
  <1> QED
    BY <1>1, <1>2, <1>3 DEF UpdatesInv

(* The registry moves no message. *)
LEMMA SameUpdates ==
  ASSUME UpdatesInv, UNCHANGED <<traffic, job, albums, marks, delivered, handed, accepted, lapsed, lost>>
  PROVE  UpdatesInv'
  <1>1. UpdatesTyped'
    BY DEF UpdatesInv, UpdatesTyped
  <1>2. ASSUME NEW m \in traffic
        PROVE  MessageInv(m)'
    <2>1. MessageInv(m)
      BY DEF UpdatesInv
    <2>2. \A g \in Handlers : /\ Works(g, m)' <=> Works(g, m)
                              /\ Marking(g, m)' <=> Marking(g, m)
                              /\ Passing(g, m)' <=> Passing(g, m)
      BY DEF Works, Marking, Passing
    <2>3. (\A i : Waits(i, m)' <=> Waits(i, m)) /\ (Regrouped(m)' <=> Regrouped(m))
      BY DEF Waits, Regrouped
    <2> QED
      BY <2>1, <2>2, <2>3, Elsewhere
  <1> QED
    BY <1>1, <1>2 DEF UpdatesInv

(* No message came yet. *)
LEMMA InboxInitUpdates == InboxInit => UpdatesInv
  <1> SUFFICES ASSUME InboxInit
               PROVE  UpdatesInv
    OBVIOUS
  <1>1. /\ traffic \in Traffics /\ job = [h \in Handlers |-> Resting] /\ albums = [a \in AlbumIds |-> <<>>]
        /\ marks = {} /\ delivered = [m \in Messages |-> 0] /\ handed = [p \in Parts |-> 0] /\ accepted = {}
    BY DEF InboxInit
  <1>2. UpdatesTyped
    <2>1. \A h \in Handlers : JobFits(job[h], traffic)
      BY <1>1, RestingFits
    <2>2. albums \in [AlbumIds -> Seq(Entry)] /\ \A a \in AlbumIds : \A i \in DOMAIN albums[a] : FALSE
      BY <1>1
    <2> QED
      BY <1>1, <2>1, <2>2 DEF UpdatesTyped
  <1>3. ASSUME NEW m \in traffic
        PROVE  MessageInv(m)
    <2>1. \A h \in Handlers : ~Works(h, m) /\ ~Marking(h, m) /\ ~Passing(h, m)
      BY <1>1, RestingFits DEF Works, Marking, Passing
    <2>2. \A i : ~Waits(i, m)
      BY <1>1 DEF Waits
    <2>3. m \in Messages /\ Contents(m) \subseteq Parts
      BY <1>2, Identified
    <2>4. Unhanded(m) /\ AtMostOnce(m)
      BY <1>1, <2>3 DEF Unhanded, AtMostOnce
    <2> QED
      BY <1>1, <2>1, <2>2, <2>4 DEF MessageInv, CameOnce, MarkedOnce, Arrives
  <1> QED
    BY <1>2, <1>3 DEF UpdatesInv

(* Every step of handlers, marks and restarts keeps the invariant. *)
LEMMA UpdatesNextInv ==
  ASSUME InboxInv, UpdatesInv, [InboxNext]_inboxVars
  PROVE  UpdatesInv'
  <1>0. InboxShapes
    BY DEF InboxInv
  <1>1. ASSUME NEW h \in Handlers, Deliver(h)
        PROVE  UpdatesInv'
    <2>1. PICK m \in traffic, pc \in {"input", "store", "register"} : Taken(h, m, pc)
      BY <1>1 DEF Deliver, HandleTextMessage, HandleFileMessage, OnCallback, MessageCreate, InteractionCreate,
                  HandleMessageEvent, HandleMessageNew, HandlePostedEvent, HandleAction
    <2>2. pc \in Early
      BY DEF Early
    <2> QED
      BY <1>0, <2>1, <2>2, TakenUpdates
  <1>2. ASSUME NEW h \in Handlers, RegistryStep(h) /\ UNCHANGED <<job, knownChats, marks, Collected>>
        PROVE  UpdatesInv'
    BY <1>2, SameUpdates DEF Collected
  <1>3. ASSUME NEW h \in Handlers, Middleware(h)
        PROVE  UpdatesInv'
    <2>1. job[h].pc = "mark" /\ UNCHANGED <<traffic, albums, delivered, handed, accepted, lost>>
      BY <1>3 DEF Middleware
    <2>2. \/ /\ GoTo(h, "manager")
             /\ \/ job[h].id \notin marks /\ marks' = marks \cup {job[h].id} /\ lapsed' = lapsed
                \/ marks' = marks /\ lapsed' = lapsed \cup {job[h].id}
          \/ /\ job[h].id \in marks /\ job' = [job EXCEPT ![h] = Resting]
             /\ marks' = marks /\ lapsed' = lapsed
      BY <1>3 DEF Middleware
    <2> QED
      BY <1>0, <2>1, <2>2, PassUpdates, DuplicateUpdates
  <1>4. ASSUME inboxVars' = inboxVars
        PROVE  UpdatesInv'
    BY <1>4, SameUpdates DEF inboxVars
  <1> QED
    BY <1>0, <1>1, <1>2, <1>3, <1>4, InputUpdates, FlushUpdates, OnUpdateUpdates, MarkExpiresUpdates,
       RestartUpdates DEF InboxNext

(* The invariant says where a message is; at rest it was handed over.      *)
LEMMA UpdatesInvSuffices == UpdatesInv => UpdatesReachManager
  <1> SUFFICES ASSUME UpdatesInv, NEW m \in traffic, ~Regrouped(m)
               PROVE  /\ m.id \notin lapsed => \A p \in Contents(m) : handed[p] <= 1
                      /\ AtRest /\ m \in accepted \ lost => \E p \in Contents(m) : handed[p] >= 1
    BY DEF UpdatesReachManager
  <1>1. MessageInv(m) /\ m \in Messages /\ delivered[m] \in Nat
    BY Identified DEF UpdatesInv, UpdatesTyped
  <1>2. ASSUME m.id \notin lapsed
        PROVE  AtMostOnce(m)
    <2>1. CASE m.album = ""
      BY <1>1, <1>2, <2>1 DEF MessageInv, MarkedOnce
    <2>2. CASE m.album # ""
      <3>1. ~(delivered[m] > 1)
        BY <2>2 DEF Regrouped
      <3>2. delivered[m] <= 1
        BY <1>1, <3>1
      <3> QED
        BY <1>1, <3>2 DEF MessageInv, CameOnce
    <2> QED
      BY <2>1, <2>2
  <1>3. ASSUME AtRest, m \in accepted, m \notin lost
        PROVE  \E p \in Contents(m) : handed[p] >= 1
    <2>1. \A h \in Handlers : ~Marking(h, m) /\ ~Passing(h, m)
      BY <1>3 DEF AtRest, Free, Marking, Passing
    <2>2. \A i : ~Waits(i, m)
      BY <1>3 DEF AtRest, Waits
    <2> QED
      BY <1>1, <1>3, <2>1, <2>2 DEF MessageInv, Arrives, Arrived
  <1> QED
    BY <1>2, <1>3 DEF AtMostOnce

(* dedup/middleware.go, album.go and the handlers of bot.go: a message or  *)
(* file reaches the manager once at most unless its mark lapsed, and once  *)
(* the handlers rest every message an update was built of has reached it,  *)
(* or was in memory when the process stopped; photos of albums delivered   *)
(* again are left to the buffer.                                           *)
THEOREM UpdatesArrive == InboxSpec => []UpdatesReachManager
  <1>1. InboxInit => InboxInv /\ UpdatesInv
    BY InboxInitInv, InboxInitUpdates
  <1>2. InboxInv /\ UpdatesInv /\ [InboxNext]_inboxVars => (InboxInv /\ UpdatesInv)'
    BY InboxNextInv, UpdatesNextInv
  <1> QED
    BY <1>1, <1>2, UpdatesInvSuffices, PTL DEF InboxSpec

-----------------------------------------------------------------------------
(* Membership of chats.                                                    *)

Chats == Groups \cup Channels

(* Events after which the bot is in the chats they name.                   *)
Arrivals == {"added", "guildCreate", "channelCreate", "channelUpdate"}

GuildKinds == {"guildCreate", "guildDelete"}

ChannelKinds == {"channelCreate", "channelUpdate", "channelDelete"}

MemberEvent ==
    {e \in [kind : {"added", "removed"} \cup GuildKinds \cup ChannelKinds, chats : SUBSET Chats] :
        /\ e.kind \in {"added", "removed"} => e.chats \subseteq Groups
        /\ e.kind \notin {"added", "removed"} => e.chats \subseteq Channels
        /\ e.kind \in ChannelKinds => e.chats # {}}

About(e, c) == c \in Scope(e)

(* The chats the bot was in, of those the event is about, when it was sent. *)
After(e) == IF e.kind \in Arrivals THEN e.chats ELSE {}

Job == [kind : {"none", "join", "joinGuild", "leave"}, todo : SUBSET Chats, all : SUBSET Chats, scope : SUBSET Chats]

MembersTyped ==
    /\ present \subseteq Chats
    /\ inGuild \in BOOLEAN
    /\ ~inGuild => present \cap Channels = {}
    /\ events \in Seq(MemberEvent)

TaskTyped ==
    /\ task \in [Handlers -> Job]
    /\ \A h \in Handlers :
          /\ task[h].todo \subseteq task[h].all /\ task[h].all \subseteq task[h].scope
          /\ ~Busy(h) => task[h].scope = {}
          /\ task[h].kind = "joinGuild" => task[h].scope = Channels

(* The registry call of a handler is about a chat of its event; a call     *)
(* that joins does not delete, and one that leaves does not insert.        *)
CallOfTask(call, t) ==
    call.op # "none" =>
        /\ call.chat \in t.all \ t.todo
        /\ call.op \in IF t.kind = "leave" THEN {"lookup", "delete", "done", "failed"}
                       ELSE {"find", "insert", "done", "failed"}
        /\ call.op = "delete" => call.row[1] = call.chat

CallsTyped ==
    /\ registry = [h \in Handlers |-> registry[h]]
    /\ \A h \in Handlers :
          /\ registry[h] = [op |-> registry[h].op, chat |-> registry[h].chat, row |-> registry[h].row]
          /\ CallOfTask(registry[h], task[h])

(* What the rows of a chat are while its handler works on it.              *)
Handled(call, t, rows, c) ==
    /\ call.op = "insert" /\ call.chat = c => rows = {}
    /\ call.op = "delete" /\ call.chat = c => rows = {call.row}
    /\ (c \in t.all \ t.todo /\ (call.op # "none" /\ call.chat = c => call.op = "done")) =>
          (rows = {} <=> t.kind = "leave")
    /\ t.kind = "joinGuild" /\ c \in t.scope \ t.all => rows = {}

(* The chats registered once the handlers at work have ended.              *)
Remains(c, ts, rows) ==
    \/ \E h \in Handlers : c \in ts[h].all /\ ts[h].kind # "leave"
    \/ rows # {} /\ \A h \in Handlers : c \notin ts[h].all

Settling == {c \in Chats : Remains(c, task, FindChat(c))}

(* The events on their way lead from what is registered to what is         *)
(* present: w[i] has the chat if the bot was in it after event i.  An      *)
(* event that leaves the chat out does so because the bot was not in it.   *)
Steady(es, n, w, c) ==
    \A a, b \in 0..n : a <= b /\ (\A k \in (a + 1)..b : ~About(es[k], c)) => (c \in w[a] <=> c \in w[b])

LeadsBy(es, n, w, c, registered, now) ==
    /\ c \in w[0] <=> c \in registered
    /\ c \in w[n] <=> c \in now
    /\ Steady(es, n, w, c)
    /\ \A i \in 1..n : About(es[i], c) => /\ c \in w[i] <=> c \in After(es[i])
                                          /\ c \in w[i - 1] => c \in es[i].chats

Leads(es, n, c, registered, now) == \E w : LeadsBy(es, n, w, c, registered, now)

(* The tracker has the registered channels, or will get them.              *)
Awaited(es, n, c) ==
    \E i \in 1..n : es[i].kind = "guildCreate" /\ \A k \in 1..(i - 1) : ~About(es[k], c)

Tracks(c, registered, ts, es, n, known) ==
    c \in Channels \cap registered =>
        c \in known \/ (\E h \in Handlers : ts[h].kind = "joinGuild") \/ Awaited(es, n, c)

OneHandler(c, ts) == \A g, h \in Handlers : c \in ts[g].scope /\ c \in ts[h].scope => g = h

Worked(c, calls, ts, rows) ==
    /\ OneHandler(c, ts)
    /\ \E r : rows \subseteq {r}
    /\ \A h \in Handlers : c \in ts[h].scope => Handled(calls[h], ts[h], rows, c)

InStep(c) ==
    /\ Worked(c, registry, task, FindChat(c))
    /\ Leads(events, Len(events), c, Settling, present)
    /\ Tracks(c, Settling, task, events, Len(events), tracked)

MembersInv ==
    /\ MembersTyped
    /\ TaskTyped
    /\ CallsTyped
    /\ \A c \in Chats \ excused : InStep(c)

(* A change is told by an event at the end of the queue.                   *)
LEMMA LeadsAppend ==
  ASSUME NEW es, NEW n \in Nat, NEW os, NEW e, NEW c, NEW registered, NEW now, NEW next,
         Leads(es, n, c, registered, now),
         \A k \in 1..n : os[k] = es[k], os[n + 1] = e,
         About(e, c) => (c \in next <=> c \in After(e)) /\ (c \in now => c \in e.chats),
         ~About(e, c) => (c \in next <=> c \in now)
  PROVE  Leads(os, n + 1, c, registered, next)
  <1>1. PICK w : LeadsBy(es, n, w, c, registered, now)
    BY DEF Leads
  <1>2. PICK v : v = [k \in 0..(n + 1) |-> IF k <= n THEN w[k] ELSE next]
    OBVIOUS
  <1>3. (\A k \in 0..n : v[k] = w[k]) /\ v[n + 1] = next
    BY <1>2
  <1>4. Steady(os, n + 1, v, c)
    <2> SUFFICES ASSUME NEW a \in 0..(n + 1), NEW b \in 0..(n + 1), a <= b, \A k \in (a + 1)..b : ~About(os[k], c)
                 PROVE  c \in v[a] <=> c \in v[b]
      BY DEF Steady
    <2>1. CASE b <= n
      <3>1. a \in 0..n /\ b \in 0..n /\ \A k \in (a + 1)..b : k \in 1..n /\ ~About(es[k], c)
        BY <2>1
      <3> QED
        BY <1>1, <1>3, <3>1 DEF LeadsBy, Steady
    <2>2. CASE b = n + 1 /\ a = n + 1
      BY <2>2
    <2>3. CASE b = n + 1 /\ a <= n
      <3>1. a \in 0..n /\ n \in 0..n /\ \A k \in (a + 1)..n : k \in 1..n /\ k \in (a + 1)..b /\ ~About(es[k], c)
        BY <2>3
      <3>2. c \in w[a] <=> c \in w[n]
        BY <1>1, <3>1 DEF LeadsBy, Steady
      <3>3. n + 1 \in (a + 1)..b
        BY <2>3
      <3>4. ~About(e, c)
        BY <3>3
      <3> QED
        BY <1>1, <1>3, <2>3, <3>1, <3>2, <3>4 DEF LeadsBy
    <2> QED
      BY <2>1, <2>2, <2>3
  <1>5. ASSUME NEW i \in 1..(n + 1), About(os[i], c)
        PROVE  (c \in v[i] <=> c \in After(os[i])) /\ (c \in v[i - 1] => c \in os[i].chats)
    <2>1. CASE i \in 1..n
      <3>1. i \in 0..n /\ i - 1 \in 0..n
        BY <2>1
      <3> QED
        BY <1>1, <1>3, <1>5, <2>1, <3>1 DEF LeadsBy
    <2>2. CASE i = n + 1
      <3>1. i - 1 = n /\ n \in 0..n
        BY <2>2
      <3> QED
        BY <1>1, <1>3, <1>5, <2>2, <3>1 DEF LeadsBy
    <2> QED
      BY <2>1, <2>2
  <1>6. 0 \in 0..n
    OBVIOUS
  <1> QED
    BY <1>1, <1>3, <1>4, <1>5, <1>6 DEF Leads, LeadsBy

(* Taking an event out: the others still lead to what is present, from     *)
(* what its handler will register.                                         *)
LEMMA LeadsTake ==
  ASSUME NEW es, NEW n \in Nat, NEW i \in 1..n, NEW os, NEW c, NEW registered, NEW next, NEW now,
         Leads(es, n, c, registered, now),
         \A k \in 1..(n - 1) : os[k] = IF k < i THEN es[k] ELSE es[k + 1],
         About(es[i], c) => /\ \A k \in 1..(i - 1) : ~About(es[k], c)
                            /\ c \in next <=> c \in After(es[i]),
         ~About(es[i], c) => (c \in next <=> c \in registered)
  PROVE  Leads(os, n - 1, c, next, now)
  <1>1. PICK w : LeadsBy(es, n, w, c, registered, now)
    BY DEF Leads
  <1>2. PICK v : v = [k \in 0..(n - 1) |-> IF k < i THEN (IF About(es[i], c) THEN w[i] ELSE w[k]) ELSE w[k + 1]]
    OBVIOUS
  <1>3. \A k \in 0..(n - 1) : /\ k < i => v[k] = IF About(es[i], c) THEN w[i] ELSE w[k]
                              /\ k >= i => v[k] = w[k + 1]
    BY <1>2
  <1>4. Steady(os, n - 1, v, c)
    <2> SUFFICES ASSUME NEW a \in 0..(n - 1), NEW b \in 0..(n - 1), a <= b, \A k \in (a + 1)..b : ~About(os[k], c)
                 PROVE  c \in v[a] <=> c \in v[b]
      BY DEF Steady
    <2>1. CASE a >= i
      <3>1. a + 1 \in 0..n /\ b + 1 \in 0..n /\ a + 1 <= b + 1
        BY <2>1
      <3>2. \A k \in (a + 2)..(b + 1) : ~About(es[k], c)
        <4> TAKE k \in (a + 2)..(b + 1)
        <4>1. k - 1 \in (a + 1)..b /\ k - 1 \in 1..(n - 1) /\ ~(k - 1 < i) /\ k - 1 + 1 = k
          BY <2>1
        <4> QED
          BY <4>1
      <3>3. c \in w[a + 1] <=> c \in w[b + 1]
        BY <1>1, <3>1, <3>2 DEF LeadsBy, Steady
      <3> QED
        BY <1>3, <2>1, <3>3
    <2>2. CASE b < i
      <3>1. CASE About(es[i], c)
        BY <1>3, <2>2, <3>1
      <3>2. CASE ~About(es[i], c)
        <4>1. \A k \in (a + 1)..b : ~About(es[k], c)
          <5> TAKE k \in (a + 1)..b
          <5>1. k \in 1..(n - 1) /\ k < i
            BY <2>2
          <5> QED
            BY <5>1
        <4>2. a \in 0..n /\ b \in 0..n
          OBVIOUS
        <4>3. c \in w[a] <=> c \in w[b]
          BY <1>1, <4>1, <4>2 DEF LeadsBy, Steady
        <4> QED
          BY <1>3, <2>2, <3>2, <4>3
      <3> QED
        BY <3>1, <3>2
    <2>3. CASE a < i /\ b >= i
      <3>1. \A k \in (i + 1)..(b + 1) : ~About(es[k], c)
        <4> TAKE k \in (i + 1)..(b + 1)
        <4>1. k - 1 \in (a + 1)..b /\ k - 1 \in 1..(n - 1) /\ ~(k - 1 < i) /\ k - 1 + 1 = k
          BY <2>3
        <4> QED
          BY <4>1
      <3>2. CASE About(es[i], c)
        <4>1. i \in 0..n /\ b + 1 \in 0..n /\ i <= b + 1
          BY <2>3
        <4>2. c \in w[i] <=> c \in w[b + 1]
          BY <1>1, <3>1, <4>1 DEF LeadsBy, Steady
        <4> QED
          BY <1>3, <2>3, <3>2, <4>2
      <3>3. CASE ~About(es[i], c)
        <4>1. \A k \in (a + 1)..(b + 1) : ~About(es[k], c)
          <5> TAKE k \in (a + 1)..(b + 1)
          <5>1. CASE k < i
            <6>1. k \in 1..(n - 1) /\ k \in (a + 1)..b
              BY <2>3, <5>1
            <6> QED
              BY <5>1, <6>1
          <5>2. CASE k = i
            BY <3>3, <5>2
          <5>3. CASE k > i
            BY <3>1, <5>3
          <5> QED
            BY <5>1, <5>2, <5>3
        <4>2. a \in 0..n /\ b + 1 \in 0..n /\ a <= b + 1
          BY <2>3
        <4>3. c \in w[a] <=> c \in w[b + 1]
          BY <1>1, <4>1, <4>2 DEF LeadsBy, Steady
        <4> QED
          BY <1>3, <2>3, <3>3, <4>3
      <3> QED
        BY <3>2, <3>3
    <2> QED
      BY <2>1, <2>2, <2>3
  <1>5. ASSUME NEW j \in 1..(n - 1), About(os[j], c)
        PROVE  (c \in v[j] <=> c \in After(os[j])) /\ (c \in v[j - 1] => c \in os[j].chats)
    <2>1. CASE j < i
      <3>1. os[j] = es[j] /\ j \in 1..n /\ j \in 0..(n - 1) /\ j - 1 \in 0..(n - 1) /\ j - 1 < i
        BY <2>1
      <3>2. ~About(es[i], c)
        BY <1>5, <2>1, <3>1
      <3> QED
        BY <1>1, <1>3, <1>5, <2>1, <3>1, <3>2 DEF LeadsBy
    <2>2. CASE j >= i
      <3>1. /\ os[j] = es[j + 1] /\ j + 1 \in 1..n /\ j \in 0..(n - 1) /\ j - 1 \in 0..(n - 1)
            /\ j + 1 - 1 = j
        BY <2>2
      <3>2. c \in w[j + 1] <=> c \in After(os[j])
        BY <1>1, <1>5, <3>1 DEF LeadsBy
      <3>3. c \in w[j] => c \in os[j].chats
        BY <1>1, <1>5, <3>1 DEF LeadsBy
      <3>4. c \in v[j - 1] => c \in w[j]
        <4>1. CASE j - 1 >= i
          BY <1>3, <3>1, <4>1
        <4>2. CASE j - 1 < i
          <5>1. j = i
            BY <2>2, <4>2
          <5>2. CASE About(es[i], c)
            BY <1>3, <3>1, <4>2, <5>1, <5>2
          <5>3. CASE ~About(es[i], c)
            <6>1. v[j - 1] = w[j - 1]
              BY <1>3, <3>1, <4>2, <5>3
            <6>2. j - 1 \in 0..n /\ j \in 0..n /\ j - 1 <= j
              BY <3>1
            <6>3. \A k \in (j - 1 + 1)..j : ~About(es[k], c)
              BY <5>1, <5>3
            <6>4. c \in w[j - 1] <=> c \in w[j]
              BY <1>1, <6>2, <6>3 DEF LeadsBy, Steady
            <6> QED
              BY <6>1, <6>4
          <5> QED
            BY <5>2, <5>3
        <4> QED
          BY <3>1, <4>1, <4>2
      <3> QED
        BY <1>3, <2>2, <3>1, <3>2, <3>3, <3>4
    <2> QED
      BY <2>1, <2>2
  <1>6. c \in v[0] <=> c \in next
    <2>1. 0 \in 0..(n - 1) /\ 0 < i /\ i \in 1..n
      OBVIOUS
    <2> QED
      BY <1>1, <1>3, <2>1 DEF LeadsBy
  <1>7. c \in v[n - 1] <=> c \in now
    <2>1. n - 1 \in 0..(n - 1) /\ n - 1 + 1 = n
      OBVIOUS
    <2>2. CASE n - 1 >= i
      BY <1>1, <1>3, <2>1, <2>2 DEF LeadsBy
    <2>3. CASE n = i /\ About(es[i], c)
      <3>1. v[n - 1] = w[n]
        BY <1>3, <2>1, <2>3
      <3> QED
        BY <1>1, <3>1 DEF LeadsBy
    <2>4. CASE n = i /\ ~About(es[i], c)
      <3>1. v[n - 1] = w[n - 1]
        BY <1>3, <2>1, <2>4
      <3>2. n - 1 \in 0..n /\ n \in 0..n /\ n - 1 <= n /\ \A k \in (n - 1 + 1)..n : ~About(es[k], c)
        BY <2>4
      <3>3. c \in w[n - 1] <=> c \in w[n]
        BY <1>1, <3>2 DEF LeadsBy, Steady
      <3> QED
        BY <1>1, <3>1, <3>3 DEF LeadsBy
    <2> QED
      BY <2>1, <2>2, <2>3, <2>4
  <1> QED
    BY <1>4, <1>5, <1>6, <1>7 DEF Leads, LeadsBy

LEMMA LeadsEmpty ==
  ASSUME NEW es, NEW c, NEW registered, NEW now, c \in registered <=> c \in now
  PROVE  Leads(es, 0, c, registered, now)
  <1>1. PICK w : w = [k \in 0..0 |-> registered]
    OBVIOUS
  <1>2. w[0] = registered
    BY <1>1
  <1>3. Steady(es, 0, w, c)
    BY DEF Steady
  <1> QED
    BY <1>2, <1>3 DEF Leads, LeadsBy

LEMMA LeadsSame ==
  ASSUME NEW es, NEW n, NEW c, NEW registered, NEW now, NEW next,
         Leads(es, n, c, registered, now), c \in next <=> c \in registered
  PROVE  Leads(es, n, c, next, now)
  <1>1. PICK w : LeadsBy(es, n, w, c, registered, now)
    BY DEF Leads
  <1>2. LeadsBy(es, n, w, c, next, now)
    BY <1>1 DEF LeadsBy
  <1> QED
    BY <1>2 DEF Leads

(* Without an event about it, a chat is registered if the bot is in it.    *)
LEMMA NothingTold ==
  ASSUME NEW es, NEW n \in Nat, NEW c, NEW registered, NEW now,
         Leads(es, n, c, registered, now), \A k \in 1..n : ~About(es[k], c)
  PROVE  c \in registered <=> c \in now
  <1>1. PICK w : LeadsBy(es, n, w, c, registered, now)
    BY DEF Leads
  <1>2. 0 \in 0..n /\ n \in 0..n /\ 0 <= n /\ \A k \in (0 + 1)..n : ~About(es[k], c)
    OBVIOUS
  <1>3. c \in w[0] <=> c \in w[n]
    BY <1>1, <1>2 DEF LeadsBy, Steady
  <1> QED
    BY <1>1, <1>3 DEF LeadsBy

(* The first event about a registered chat names it.                       *)
LEMMA FirstNames ==
  ASSUME NEW es, NEW n \in Nat, NEW c, NEW registered, NEW now, NEW i \in 1..n,
         Leads(es, n, c, registered, now), About(es[i], c),
         \A k \in 1..(i - 1) : ~About(es[k], c), c \in registered
  PROVE  c \in es[i].chats
  <1>1. PICK w : LeadsBy(es, n, w, c, registered, now)
    BY DEF Leads
  <1>2. 0 \in 0..n /\ i - 1 \in 0..n /\ 0 <= i - 1 /\ \A k \in (0 + 1)..(i - 1) : ~About(es[k], c)
    OBVIOUS
  <1>3. c \in w[0] <=> c \in w[i - 1]
    BY <1>1, <1>2 DEF LeadsBy, Steady
  <1> QED
    BY <1>1, <1>3 DEF LeadsBy

LEMMA AwaitedAppend ==
  ASSUME NEW es, NEW n \in Nat, NEW os, NEW c, Awaited(es, n, c), \A k \in 1..n : os[k] = es[k]
  PROVE  Awaited(os, n + 1, c)
  <1>1. PICK i \in 1..n : es[i].kind = "guildCreate" /\ \A k \in 1..(i - 1) : ~About(es[k], c)
    BY DEF Awaited
  <1>2. i \in 1..(n + 1) /\ os[i] = es[i]
    OBVIOUS
  <1>3. \A k \in 1..(i - 1) : k \in 1..n /\ ~About(os[k], c)
    BY <1>1
  <1> QED
    BY <1>1, <1>2, <1>3 DEF Awaited

LEMMA AwaitedTake ==
  ASSUME NEW es, NEW n \in Nat, NEW i \in 1..n, NEW os, NEW c, Awaited(es, n, c),
         c \in Channels, ~About(es[i], c),
         \A k \in 1..(n - 1) : os[k] = IF k < i THEN es[k] ELSE es[k + 1]
  PROVE  Awaited(os, n - 1, c)
  <1>1. PICK j \in 1..n : es[j].kind = "guildCreate" /\ \A k \in 1..(j - 1) : ~About(es[k], c)
    BY DEF Awaited
  <1>2. j # i
    BY <1>1 DEF About, Scope
  <1>3. CASE j < i
    <2>1. j \in 1..(n - 1) /\ os[j] = es[j]
      BY <1>3
    <2>2. \A k \in 1..(j - 1) : k \in 1..(n - 1) /\ k < i /\ ~About(os[k], c)
      BY <1>1, <1>3
    <2> QED
      BY <1>1, <2>1, <2>2 DEF Awaited
  <1>4. CASE j > i
    <2>1. j - 1 \in 1..(n - 1) /\ os[j - 1] = es[j]
      BY <1>4
    <2>2. \A k \in 1..(j - 1 - 1) : ~About(os[k], c)
      <3> TAKE k \in 1..(j - 1 - 1)
      <3>1. k \in 1..(n - 1) /\ k \in 1..(j - 1) /\ k + 1 \in 1..(j - 1)
        OBVIOUS
      <3> QED
        BY <1>1, <3>1
    <2> QED
      BY <1>1, <2>1, <2>2 DEF Awaited
  <1> QED
    BY <1>2, <1>3, <1>4

LEMMA MembersNow ==
  ASSUME MembersInv
  PROVE  /\ \E n \in Nat : n = Len(events) /\ DOMAIN events = 1..n /\ \A k \in 1..n : events[k] \in MemberEvent
         /\ \A c \in Chats : c \in Settling <=> Remains(c, task, FindChat(c))
  BY DEF MembersInv, MembersTyped, Settling

-----------------------------------------------------------------------------

(* A change on a platform.                                                 *)
LEMMA ChangeFollowed ==
  ASSUME MembersInv, NEW now \in SUBSET Chats, NEW member \in BOOLEAN, NEW e \in MemberEvent,
         Change(now, member, e),
         ~member => now \cap Channels = {},
         \A c \in Chats : /\ About(e, c) => (c \in now <=> c \in After(e)) /\ (c \in present => c \in e.chats)
                          /\ ~About(e, c) => (c \in now <=> c \in present)
  PROVE  MembersInv'
  <1>1. PICK n \in Nat : n = Len(events) /\ \A k \in 1..n : events[k] \in MemberEvent
    BY MembersNow
  <1>2. PICK os : os = Append(events, e)
    OBVIOUS
  <1>3. /\ events' = os /\ present' = now /\ inGuild' = member
        /\ UNCHANGED <<task, registry, chatRows, tracked, excused>>
    BY <1>2 DEF Change, registryVars
  <1>4. os \in Seq(MemberEvent) /\ Len(os) = n + 1 /\ (\A k \in 1..n : os[k] = events[k]) /\ os[n + 1] = e
    BY <1>1, <1>2 DEF MembersInv, MembersTyped
  <1>5. MembersTyped' /\ TaskTyped' /\ CallsTyped'
    BY <1>3, <1>4 DEF MembersInv, MembersTyped, TaskTyped, CallsTyped, Busy
  <1>6. Settling' = Settling
    BY <1>3 DEF Settling, FindChat
  <1>7. ASSUME NEW c \in Chats \ excused'
        PROVE  InStep(c)'
    <2>1. InStep(c)
      BY <1>3, <1>7 DEF MembersInv
    <2>2. Worked(c, registry', task', FindChat(c)')
      BY <1>3, <2>1 DEF InStep, FindChat
    <2>3. Leads(os, n + 1, c, Settling, now)
      <3>1. Leads(events, n, c, Settling, present)
        BY <1>1, <2>1 DEF InStep
      <3> QED
        BY <1>4, <3>1, LeadsAppend
    <2>4. Tracks(c, Settling, task, os, n + 1, tracked)
      <3>1. Awaited(events, n, c) => Awaited(os, n + 1, c)
        BY <1>4, AwaitedAppend
      <3> QED
        BY <1>1, <2>1, <3>1 DEF InStep, Tracks
    <2> QED
      BY <1>3, <1>4, <1>6, <2>2, <2>3, <2>4 DEF InStep
  <1> QED
    BY <1>5, <1>7 DEF MembersInv

LEMMA PlatformFollowed ==
  ASSUME MembersInv, GroupChanges \/ GuildChanges \/ ChannelChanges
  PROVE  MembersInv'
  <1>1. present \subseteq Chats /\ inGuild \in BOOLEAN /\ (~inGuild => present \cap Channels = {})
    BY DEF MembersInv, MembersTyped
  <1>2. ASSUME NEW c \in Groups, c \notin present, Change(present \cup {c}, inGuild, Event("added", {c}))
        PROVE  MembersInv'
    <2>1. PICK now, e : now = present \cup {c} /\ e = Event("added", {c})
      OBVIOUS
    <2>2. e \in MemberEvent /\ Scope(e) = {c} /\ After(e) = {c} /\ e.chats = {c}
      BY <2>1 DEF Event, MemberEvent, Scope, After, Arrivals, GuildKinds, ChannelKinds, Chats
    <2>3. now \in SUBSET Chats /\ (~inGuild => now \cap Channels = {})
      BY <1>1, <2>1, MembersAssumption DEF Chats
    <2> QED
      BY <1>1, <1>2, <2>1, <2>2, <2>3, ChangeFollowed DEF About
  <1>3. ASSUME NEW c \in Groups, c \in present, Change(present \ {c}, inGuild, Event("removed", {c}))
        PROVE  MembersInv'
    <2>1. PICK now, e : now = present \ {c} /\ e = Event("removed", {c})
      OBVIOUS
    <2>2. e \in MemberEvent /\ Scope(e) = {c} /\ After(e) = {} /\ e.chats = {c}
      BY <2>1 DEF Event, MemberEvent, Scope, After, Arrivals, GuildKinds, ChannelKinds, Chats
    <2>3. now \in SUBSET Chats /\ (~inGuild => now \cap Channels = {})
      BY <1>1, <2>1
    <2> QED
      BY <1>1, <1>3, <2>1, <2>2, <2>3, ChangeFollowed DEF About
  <1>4. ASSUME ~inGuild, NEW cs \in SUBSET Channels, Change(present \cup cs, TRUE, Event("guildCreate", cs))
        PROVE  MembersInv'
    <2>1. PICK now, e, yes : now = present \cup cs /\ e = Event("guildCreate", cs) /\ yes = TRUE
      OBVIOUS
    <2>2. e \in MemberEvent /\ Scope(e) = Channels /\ After(e) = cs /\ e.chats = cs
      BY <2>1 DEF Event, MemberEvent, Scope, After, Arrivals, GuildKinds, ChannelKinds, Chats
    <2>3. now \in SUBSET Chats /\ yes \in BOOLEAN
      BY <1>1, <2>1 DEF Chats
    <2> QED
      BY <1>1, <1>4, <2>1, <2>2, <2>3, ChangeFollowed DEF About
  <1>5. ASSUME inGuild, Change(present \ Channels, FALSE, Event("guildDelete", present \cap Channels))
        PROVE  MembersInv'
    <2>1. PICK now, e, no : now = present \ Channels /\ e = Event("guildDelete", present \cap Channels) /\ no = FALSE
      OBVIOUS
    <2>2. e \in MemberEvent /\ Scope(e) = Channels /\ After(e) = {} /\ e.chats = present \cap Channels
      BY <2>1 DEF Event, MemberEvent, Scope, After, Arrivals, GuildKinds, ChannelKinds, Chats
    <2>3. now \in SUBSET Chats /\ no \in BOOLEAN /\ now \cap Channels = {}
      BY <1>1, <2>1
    <2> QED
      BY <1>1, <1>5, <2>1, <2>2, <2>3, ChangeFollowed DEF About
  <1>6. ASSUME NEW c \in Channels, inGuild, NEW kind \in ChannelKinds, NEW now, NEW e,
               kind = "channelDelete" => now = present \ {c} /\ c \in present,
               kind # "channelDelete" => now = present \cup {c},
               e = Event(kind, {c}), Change(now, TRUE, e)
        PROVE  MembersInv'
    <2>1. PICK yes : yes = TRUE
      OBVIOUS
    <2>2. e \in MemberEvent /\ Scope(e) = {c} /\ e.chats = {c}
      BY <1>6 DEF Event, MemberEvent, Scope, GuildKinds, ChannelKinds, Chats
    <2>3. After(e) = IF kind = "channelDelete" THEN {} ELSE {c}
      BY <1>6 DEF Event, After, Arrivals, ChannelKinds
    <2>4. now \in SUBSET Chats /\ yes \in BOOLEAN
      BY <1>1, <1>6, <2>1 DEF Chats
    <2>5. ~yes => now \cap Channels = {}
      BY <2>1
    <2>6. \A x \in Chats : /\ About(e, x) => (x \in now <=> x \in After(e)) /\ (x \in present => x \in e.chats)
                           /\ ~About(e, x) => (x \in now <=> x \in present)
      BY <1>6, <2>2, <2>3 DEF About
    <2> QED
      BY <1>6, <2>1, <2>2, <2>4, <2>5, <2>6, ChangeFollowed
  <1>7. CASE ChannelChanges
    <2>1. PICK c \in Channels : inGuild /\
             \/ Change(present \cup {c}, TRUE, Event("channelCreate", {c}))
             \/ c \in present /\ Change(present \ {c}, TRUE, Event("channelDelete", {c}))
             \/ c \in present /\ Change(present, TRUE, Event("channelUpdate", {c}))
      BY <1>7 DEF ChannelChanges
    <2>2. "channelCreate" \in ChannelKinds /\ "channelDelete" \in ChannelKinds /\ "channelUpdate" \in ChannelKinds
      BY DEF ChannelKinds
    <2>3. c \in present => present = present \cup {c}
      OBVIOUS
    <2>4. PICK created, deleted, updated : /\ created = Event("channelCreate", {c})
                                           /\ deleted = Event("channelDelete", {c})
                                           /\ updated = Event("channelUpdate", {c})
      OBVIOUS
    <2> QED
      BY <1>6, <2>1, <2>2, <2>3, <2>4
  <1> QED
    BY <1>2, <1>3, <1>4, <1>5, <1>7 DEF GroupChanges, GuildChanges

(* A handler takes an event.  Of a chat that is not excused nobody else is *)
(* at work, and no earlier event waits.                                    *)
LEMMA TakeFollowed ==
  ASSUME MembersInv, NEW h \in Handlers, NEW i \in 1..Len(events),
         NEW kind \in {"join", "joinGuild", "leave"}, NEW chats \in SUBSET Chats,
         ~Busy(h), Take(h, i, kind, chats),
         chats \subseteq Scope(events[i]),
         kind # "leave" <=> events[i].kind \in Arrivals,
         kind = "joinGuild" <=> events[i].kind = "guildCreate",
         chats = events[i].chats \/ (events[i].kind = "guildDelete" /\ chats = tracked \cap Channels),
         \A c \in tracked \ tracked' : kind = "leave" /\ c \in Scope(events[i]),
         events[i].kind \in ChannelKinds /\ kind # "leave" => chats \subseteq tracked'
  PROVE  MembersInv'
  <1>1. PICK n \in Nat : n = Len(events) /\ \A k \in 1..n : events[k] \in MemberEvent
    BY MembersNow
  <1>2. PICK os : os = Others(i)
    OBVIOUS
  <1>3. PICK got : got = IF chats = {} /\ kind = "leave" THEN NoTask
                         ELSE [kind |-> kind, todo |-> chats, all |-> chats, scope |-> Scope(events[i])]
    OBVIOUS
  <1>4. /\ events' = os /\ UNCHANGED <<present, inGuild, registry, chatRows>>
        /\ excused' = excused \cup (Scope(events[i]) \cap Contended(i))
        /\ task' = [task EXCEPT ![h] = got]
    BY <1>2, <1>3 DEF Take, registryVars
  <1>5. /\ os \in Seq(MemberEvent) /\ Len(os) = n - 1
        /\ \A k \in 1..(n - 1) : os[k] = IF k < i THEN events[k] ELSE events[k + 1]
    <2>1. n - 1 \in Nat
      BY <1>1
    <2>2. os = [k \in 1..(n - 1) |-> IF k < i THEN events[k] ELSE events[k + 1]]
      BY <1>1, <1>2 DEF Others
    <2>3. os \in [1..(n - 1) -> MemberEvent]
      BY <1>1, <2>2, SMTT(30)
    <2> QED
      BY <2>1, <2>2, <2>3, SMTT(30)
  <1>6. PICK e : e = events[i]
    OBVIOUS
  <1>7. e \in MemberEvent /\ Scope(e) \subseteq Chats /\ i \in 1..n
    BY <1>1, <1>6 DEF MemberEvent, Scope, Chats
  <1>8. /\ got \in Job /\ got.todo = chats /\ got.all = chats
        /\ got.scope \subseteq Scope(e) /\ chats \subseteq got.scope
        /\ (got.kind = "leave" \/ got = NoTask) <=> kind = "leave"
        /\ got.kind = "joinGuild" <=> kind = "joinGuild"
        /\ got.kind = "none" => got.scope = {}
        /\ kind # "leave" => got.kind = kind /\ got.scope = Scope(e)
        /\ kind = "leave" /\ chats # {} => got.kind = "leave"
    BY <1>3, <1>6, <1>7 DEF Job, NoTask
  <1>9. /\ task \in [Handlers -> Job]
        /\ task[h].kind = "none" /\ task[h].scope = {} /\ task[h].all = {} /\ task[h].todo = {}
        /\ \A g \in Handlers : task[g].all \subseteq task[g].scope
    BY DEF MembersInv, TaskTyped, Busy
  <1>10. task'[h] = got /\ \A g \in Handlers : g # h => task'[g] = task[g]
    BY <1>4, <1>9
  <1>11. registry[h].op = "none"
    BY <1>9 DEF MembersInv, CallsTyped, CallOfTask
  <1>12. MembersTyped'
    BY <1>4, <1>5 DEF MembersInv, MembersTyped
  <1>13. TaskTyped'
    <2>1. kind = "joinGuild" => Scope(e) = Channels
      BY <1>6 DEF Scope
    <2>2. task' \in [Handlers -> Job]
      BY <1>4, <1>8, <1>9
    <2>3. ASSUME NEW g \in Handlers
          PROVE  /\ task'[g].todo \subseteq task'[g].all /\ task'[g].all \subseteq task'[g].scope
                 /\ task'[g].kind = "none" => task'[g].scope = {}
                 /\ task'[g].kind = "joinGuild" => task'[g].scope = Channels
      <3>1. CASE g = h
        BY <1>8, <1>10, <2>1, <3>1
      <3>2. CASE g # h
        BY <1>10, <3>2 DEF MembersInv, TaskTyped, Busy
      <3> QED
        BY <3>1, <3>2
    <2> QED
      BY <2>2, <2>3 DEF TaskTyped, Busy
  <1>14. CallsTyped'
    <2>1. ASSUME NEW g \in Handlers
          PROVE  CallOfTask(registry[g], task'[g])
      <3>1. CASE g = h
        BY <1>11, <3>1 DEF CallOfTask
      <3>2. CASE g # h
        BY <1>10, <3>2 DEF MembersInv, CallsTyped
      <3> QED
        BY <3>1, <3>2
    <2> QED
      BY <1>4, <2>1 DEF MembersInv, CallsTyped
  <1>15. ASSUME NEW c \in Chats \ excused'
         PROVE  InStep(c)'
    <2>1. InStep(c) /\ c \notin Scope(e) \cap Contended(i)
      BY <1>4, <1>6, <1>15 DEF MembersInv
    <2>2. PICK rows : rows = FindChat(c)
      OBVIOUS
    <2>3. FindChat(c)' = rows
      BY <1>4, <2>2 DEF FindChat
    <2>4. /\ c \in Settling <=> Remains(c, task, rows)
          /\ c \in Settling' <=> Remains(c, task', rows)
      BY <2>2, <2>3 DEF Settling
    <2>5. Worked(c, registry, task, rows) /\ Leads(events, n, c, Settling, present)
          /\ Tracks(c, Settling, task, events, n, tracked)
      BY <1>1, <2>1, <2>2 DEF InStep
    <2>6. CASE About(e, c)
      <3>1. (\A g \in Handlers : c \notin task[g].scope) /\ \A k \in 1..(i - 1) : ~About(events[k], c)
        <4>1. c \notin Contended(i)
          BY <2>1, <2>6 DEF About
        <4>2. \A g \in Handlers : c \notin task[g].scope
          BY <4>1 DEF Contended
        <4>3. \A k \in 1..(i - 1) : c \notin Scope(events[k])
          BY <4>1 DEF Contended
        <4> QED
          BY <4>2, <4>3 DEF About
      <3>2. \A g \in Handlers : c \notin task[g].all
        BY <1>9, <3>1
      <3>3. c \in Settling <=> rows # {}
        BY <2>4, <3>2 DEF Remains
      <3>4. c \in Settling => c \in e.chats
        BY <1>1, <1>6, <1>7, <2>5, <2>6, <3>1, FirstNames
      <3>5. c \in Settling /\ kind = "leave" => c \in chats
        <4>1. CASE chats = e.chats
          BY <3>4, <4>1
        <4>2. CASE e.kind = "guildDelete" /\ chats = tracked \cap Channels
          <5>1. c \in Channels /\ Scope(e) = Channels
            BY <2>6, <4>2 DEF About, Scope
          <5>2. ~\E g \in Handlers : task[g].kind = "joinGuild"
            BY <3>1, <5>1 DEF MembersInv, TaskTyped
          <5>3. ~Awaited(events, n, c)
            <6> SUFFICES ASSUME NEW j \in 1..n, events[j].kind = "guildCreate",
                                \A k \in 1..(j - 1) : ~About(events[k], c)
                         PROVE  FALSE
              BY DEF Awaited
            <6>1. About(events[j], c) /\ About(events[i], c)
              BY <1>6, <2>6, <5>1 DEF About, Scope
            <6>2. ~(j < i) /\ ~(i < j)
              BY <1>7, <3>1, <6>1
            <6>3. j = i
              BY <1>7, <6>2
            <6> QED
              BY <1>6, <4>2, <6>3
          <5> QED
            BY <2>5, <4>2, <5>1, <5>2, <5>3 DEF Tracks
        <4> QED
          BY <1>6, <4>1, <4>2
      <3>6. kind # "leave" => chats = e.chats /\ After(e) = e.chats
        BY <1>6 DEF After, Arrivals
      <3>7. kind = "leave" => After(e) = {}
        BY <1>6 DEF After
      <3>8. c \in Settling' <=> c \in After(e)
        <4>1. (\A g \in Handlers : c \notin task'[g].all) <=> c \notin chats
          BY <1>8, <1>10, <3>2
        <4>2. (\E g \in Handlers : c \in task'[g].all /\ task'[g].kind # "leave") <=> c \in chats /\ kind # "leave"
          BY <1>8, <1>10, <3>2
        <4> QED
          BY <2>4, <3>3, <3>4, <3>5, <3>6, <3>7, <4>1, <4>2 DEF Remains
      <3>9. Worked(c, registry, task', rows)
        <4>1. OneHandler(c, task')
          BY <1>10, <3>1 DEF OneHandler
        <4>2. kind = "joinGuild" /\ c \notin chats => rows = {}
          BY <3>3, <3>4, <3>6
        <4>3. Handled(registry[h], got, rows, c)
          BY <1>8, <1>11, <4>2 DEF Handled
        <4> QED
          BY <1>10, <2>5, <3>1, <4>1, <4>3 DEF Worked
      <3>10. Leads(os, n - 1, c, Settling', present)
        BY <1>1, <1>5, <1>6, <1>7, <2>5, <2>6, <3>1, <3>8, LeadsTake
      <3>11. Tracks(c, Settling', task', os, n - 1, tracked')
        <4> SUFFICES ASSUME c \in Channels, c \in Settling'
                     PROVE  c \in tracked' \/ \E g \in Handlers : task'[g].kind = "joinGuild"
          BY DEF Tracks
        <4>1. kind # "leave" /\ c \in chats
          BY <3>6, <3>7, <3>8
        <4>2. e.kind # "added"
          BY <1>7, <3>6, <4>1, MembersAssumption DEF MemberEvent
        <4>3. e.kind = "guildCreate" \/ e.kind \in ChannelKinds
          BY <1>6, <4>1, <4>2 DEF Arrivals, ChannelKinds
        <4> QED
          BY <1>6, <1>8, <1>10, <4>1, <4>3
      <3> QED
        BY <1>4, <1>5, <2>3, <3>9, <3>10, <3>11 DEF InStep
    <2>7. CASE ~About(e, c)
      <3>1. c \notin got.scope /\ c \notin got.all /\ c \notin task[h].scope /\ c \notin task[h].all
        BY <1>8, <1>9, <2>7 DEF About
      <3>2. \A g \in Handlers : /\ c \in task'[g].scope => g # h /\ task'[g] = task[g]
                                /\ c \in task'[g].all <=> c \in task[g].all
                                /\ c \in task'[g].all => task'[g] = task[g]
        BY <1>10, <3>1
      <3>3. Worked(c, registry, task', rows)
        <4>1. OneHandler(c, task')
          BY <2>5, <3>2 DEF Worked, OneHandler
        <4> QED
          BY <2>5, <3>2, <4>1 DEF Worked
      <3>4. c \in Settling' <=> c \in Settling
        BY <2>4, <3>2 DEF Remains
      <3>5. Leads(os, n - 1, c, Settling', present)
        BY <1>1, <1>5, <1>6, <1>7, <2>5, <2>7, <3>4, LeadsTake
      <3>6. Tracks(c, Settling', task', os, n - 1, tracked')
        <4> SUFFICES ASSUME c \in Channels, c \in Settling
                     PROVE  c \in tracked' \/ (\E g \in Handlers : task'[g].kind = "joinGuild") \/ Awaited(os, n - 1, c)
          BY <3>4 DEF Tracks
        <4>1. c \in tracked => c \in tracked'
          BY <1>6, <2>7 DEF About
        <4>2. \A g \in Handlers : task[g].kind = "joinGuild" => task'[g].kind = "joinGuild"
          BY <1>9, <1>10
        <4>3. Awaited(events, n, c) => Awaited(os, n - 1, c)
          BY <1>1, <1>5, <1>6, <1>7, <2>7, AwaitedTake
        <4> QED
          BY <2>5, <4>1, <4>2, <4>3 DEF Tracks
      <3> QED
        BY <1>4, <1>5, <2>3, <3>3, <3>5, <3>6 DEF InStep
    <2> QED
      BY <2>6, <2>7
  <1> QED
    BY <1>12, <1>13, <1>14, <1>15 DEF MembersInv

LEMMA TakeEventFollowed ==
  ASSUME MembersInv, NEW h \in Handlers, TakeEvent(h)
  PROVE  MembersInv'
  <1>1. PICK i \in 1..Len(events) : /\ ~Busy(h)
                                    /\ \/ HandleMyChatMember(h, i) \/ GuildCreate(h, i) \/ GuildDelete(h, i)
                                       \/ SyncGuildTextChannel(h, i) \/ RemoveGuildTextChannel(h, i)
    BY MembersNow DEF TakeEvent
  <1>2. PICK e : e = events[i]
    OBVIOUS
  <1>3. e \in MemberEvent
    BY <1>2, MembersNow
  <1>4. PICK chats : chats = e.chats
    OBVIOUS
  <1>5. /\ chats \in SUBSET Chats /\ chats \subseteq Scope(e)
        /\ e.kind \in ChannelKinds => chats # {} /\ Scope(e) = chats
    BY <1>3, <1>4 DEF MemberEvent, Scope, Chats, ChannelKinds
  <1>6. CASE HandleMyChatMember(h, i)
    <2>1. tracked' = tracked /\ (e.kind = "added" \/ e.kind = "removed")
      BY <1>2, <1>6 DEF HandleMyChatMember
    <2>2. PICK kind : kind = IF e.kind = "added" THEN "join" ELSE "leave"
      OBVIOUS
    <2>3. Take(h, i, kind, chats)
      BY <1>2, <1>4, <1>6, <2>2 DEF HandleMyChatMember
    <2>4. /\ kind \in {"join", "joinGuild", "leave"} /\ kind # "joinGuild" /\ e.kind # "guildCreate"
          /\ kind # "leave" <=> e.kind \in Arrivals
          /\ e.kind \notin ChannelKinds
      BY <2>1, <2>2 DEF Arrivals, ChannelKinds
    <2> QED
      BY <1>1, <1>2, <1>4, <1>5, <2>1, <2>3, <2>4, TakeFollowed
  <1>7. CASE GuildCreate(h, i)
    <2>1. PICK kind : kind = "joinGuild"
      OBVIOUS
    <2>2. tracked' = tracked /\ e.kind = "guildCreate" /\ Take(h, i, kind, chats)
      BY <1>2, <1>4, <1>7, <2>1 DEF GuildCreate
    <2>3. /\ kind \in {"join", "joinGuild", "leave"} /\ kind # "leave"
          /\ e.kind \in Arrivals /\ e.kind \notin ChannelKinds
      BY <2>1, <2>2 DEF Arrivals, ChannelKinds
    <2> QED
      BY <1>1, <1>2, <1>4, <1>5, <2>1, <2>2, <2>3, TakeFollowed
  <1>8. CASE GuildDelete(h, i)
    <2>1. PICK kind : kind = "leave"
      OBVIOUS
    <2>2. e.kind = "guildDelete" /\ Scope(e) = Channels /\ tracked' = tracked \ Channels
      BY <1>2, <1>8 DEF GuildDelete, Scope, RemoveGuild
    <2>3. PICK gone : /\ gone = chats \/ gone = tracked \cap Channels
                      /\ Take(h, i, kind, gone)
      BY <1>2, <1>4, <1>8, <2>1 DEF GuildDelete
    <2>4. /\ kind \in {"join", "joinGuild", "leave"} /\ e.kind \notin Arrivals /\ e.kind \notin ChannelKinds
          /\ e.kind # "guildCreate" /\ kind # "joinGuild"
      BY <2>1, <2>2 DEF Arrivals, ChannelKinds
    <2>5. gone \in SUBSET Chats /\ gone \subseteq Scope(e)
      BY <1>5, <2>2, <2>3 DEF Chats
    <2> QED
      BY <1>1, <1>2, <1>4, <2>1, <2>2, <2>3, <2>4, <2>5, TakeFollowed
  <1>9. CASE SyncGuildTextChannel(h, i)
    <2>1. PICK kind : kind = "join"
      OBVIOUS
    <2>2. e.kind \in {"channelCreate", "channelUpdate"} /\ Take(h, i, kind, chats)
          /\ tracked' = UNION {Upsert(c) : c \in chats}
      BY <1>2, <1>4, <1>9, <2>1 DEF SyncGuildTextChannel
    <2>3. /\ kind \in {"join", "joinGuild", "leave"} /\ kind # "leave" /\ kind # "joinGuild"
          /\ e.kind \in Arrivals /\ e.kind \in ChannelKinds /\ e.kind # "guildCreate"
      BY <2>1, <2>2 DEF Arrivals, ChannelKinds
    <2>4. tracked' = tracked \cup chats
      BY <1>5, <2>2, <2>3 DEF Upsert
    <2> QED
      BY <1>1, <1>2, <1>4, <1>5, <2>2, <2>3, <2>4, TakeFollowed
  <1>10. CASE RemoveGuildTextChannel(h, i)
    <2>1. PICK kind : kind = "leave"
      OBVIOUS
    <2>2. e.kind = "channelDelete" /\ Take(h, i, kind, chats) /\ tracked' = UNION {Remove(c) : c \in chats}
      BY <1>2, <1>4, <1>10, <2>1 DEF RemoveGuildTextChannel
    <2>3. /\ kind \in {"join", "joinGuild", "leave"} /\ kind # "joinGuild"
          /\ e.kind \notin Arrivals /\ e.kind \in ChannelKinds /\ e.kind # "guildCreate"
      BY <2>1, <2>2 DEF Arrivals, ChannelKinds
    <2>4. \A c \in tracked \ tracked' : c \in Scope(e)
      BY <1>5, <2>2, <2>3 DEF Remove
    <2> QED
      BY <1>1, <1>2, <1>4, <1>5, <2>1, <2>2, <2>3, <2>4, TakeFollowed
  <1> QED
    BY <1>1, <1>6, <1>7, <1>8, <1>9, <1>10

-----------------------------------------------------------------------------

(* What a step changes of one handler alone.                               *)
LEMMA WorkFollowed ==
  ASSUME MembersInv, NEW h \in Handlers, MembersTyped', TaskTyped', CallsTyped',
         UNCHANGED <<events, present>>, excused \subseteq excused',
         \A g \in Handlers \ {h} : registry'[g] = registry[g] /\ task'[g] = task[g],
         \A c \in Chats \ excused' :
            /\ c \notin task[h].all => FindChat(c)' = FindChat(c)
            /\ task'[h].scope \subseteq task[h].scope
            /\ Worked(c, registry, task, FindChat(c)) =>
                   /\ \E r : FindChat(c)' \subseteq {r}
                   /\ c \in task'[h].scope => Handled(registry'[h], task'[h], FindChat(c)', c)
                   /\ c \in Settling' <=> c \in Settling
            /\ InStep(c) => Tracks(c, Settling, task', events, Len(events), tracked')
  PROVE  MembersInv'
  <1>1. ASSUME NEW c \in Chats \ excused'
        PROVE  InStep(c)'
    <2>1. InStep(c)
      BY <1>1 DEF MembersInv
    <2>2. PICK rows, next : rows = FindChat(c) /\ next = FindChat(c)'
      OBVIOUS
    <2>3. Worked(c, registry, task, rows) /\ Leads(events, Len(events), c, Settling, present)
          /\ Tracks(c, Settling, task', events, Len(events), tracked')
      BY <1>1, <2>1, <2>2 DEF InStep
    <2>4. /\ \E r : next \subseteq {r}
          /\ c \in task'[h].scope => Handled(registry'[h], task'[h], next, c)
          /\ c \in Settling' <=> c \in Settling
      BY <1>1, <2>2, <2>3
    <2>5. Worked(c, registry', task', next)
      <3>1. \A g \in Handlers : c \in task'[g].scope => c \in task[g].scope
        BY <1>1
      <3>2. OneHandler(c, task')
        BY <2>3, <3>1 DEF Worked, OneHandler
      <3>3. ASSUME NEW g \in Handlers, g # h, c \in task'[g].scope
            PROVE  Handled(registry'[g], task'[g], next, c)
        <4>1. registry'[g] = registry[g] /\ task'[g] = task[g]
          BY <3>3
        <4>2. Handled(registry[g], task[g], rows, c)
          BY <2>3, <3>1, <3>3 DEF Worked
        <4>3. c \notin task[h].all
          BY <2>3, <3>1, <3>3 DEF Worked, OneHandler, MembersInv, TaskTyped
        <4>4. next = rows
          BY <1>1, <2>2, <4>3
        <4> QED
          BY <4>1, <4>2, <4>4
      <3> QED
        BY <2>4, <3>2, <3>3 DEF Worked
    <2>6. Leads(events, Len(events), c, Settling', present)
      BY <2>3, <2>4, LeadsSame
    <2>7. Tracks(c, Settling', task', events, Len(events), tracked')
      BY <2>3, <2>4 DEF Tracks
    <2> QED
      BY <2>2, <2>5, <2>6, <2>7 DEF InStep
  <1> QED
    BY <1>1 DEF MembersInv

LEMMA TaskNow ==
  ASSUME MembersInv, NEW h \in Handlers
  PROVE  /\ task \in [Handlers -> Job] /\ task[h] \in Job
         /\ task[h].todo \subseteq task[h].all /\ task[h].all \subseteq task[h].scope
         /\ task[h].kind = "none" => task[h].scope = {}
         /\ task[h].kind = "joinGuild" => task[h].scope = Channels
         /\ registry = [g \in Handlers |-> registry[g]]
         /\ registry[h] = [op |-> registry[h].op, chat |-> registry[h].chat, row |-> registry[h].row]
         /\ CallOfTask(registry[h], task[h])
  BY DEF MembersInv, TaskTyped, CallsTyped, Busy

(* The call of a handler changes, and nothing else that is checked here.   *)
LEMMA CallTyped ==
  ASSUME MembersInv, NEW h \in Handlers, NEW call,
         call = [op |-> call.op, chat |-> call.chat, row |-> call.row],
         registry' = [registry EXCEPT ![h] = call], CallOfTask(call, task'[h]),
         \A g \in Handlers : g # h => task'[g] = task[g]
  PROVE  CallsTyped' /\ registry'[h] = call /\ \A g \in Handlers : g # h => registry'[g] = registry[g]
  <1>1. registry = [g \in Handlers |-> registry[g]]
    BY DEF MembersInv, CallsTyped
  <1>2. PICK reg : reg = [registry EXCEPT ![h] = call]
    OBVIOUS
  <1>3. reg[h] = call /\ (\A g \in Handlers : g # h => reg[g] = registry[g]) /\ reg = [g \in Handlers |-> reg[g]]
    BY <1>1, <1>2
  <1>4. registry' = reg
    BY <1>2
  <1>5. ASSUME NEW g \in Handlers
        PROVE  /\ reg[g] = [op |-> reg[g].op, chat |-> reg[g].chat, row |-> reg[g].row]
               /\ CallOfTask(reg[g], task'[g])
    <2>1. CASE g = h
      BY <1>3, <2>1
    <2>2. CASE g # h
      BY <1>3, <2>2 DEF MembersInv, CallsTyped
    <2> QED
      BY <2>1, <2>2
  <1> QED
    BY <1>3, <1>4, <1>5 DEF CallsTyped

(* CallJoinHandler: the next chat of the event.                            *)
LEMMA CallJoinHandlerFollowed ==
  ASSUME MembersInv, NEW h \in Handlers, CallJoinHandler(h)
  PROVE  MembersInv'
  <1>1. PICK c0, op, t :
           /\ c0 \in task[h].todo
           /\ op = IF task[h].kind = "leave" THEN "lookup" ELSE "find"
           /\ t = [task[h] EXCEPT !.todo = @ \ {c0}]
           /\ registry' = [registry EXCEPT ![h] = IF task[h].kind = "leave" THEN OnChatLeave(c0) ELSE OnChatJoin(c0)]
           /\ task' = [task EXCEPT ![h].todo = @ \ {c0}]
    BY DEF CallJoinHandler
  <1>2. registry[h] = NoCall /\ UNCHANGED <<present, inGuild, events, tracked, excused, chatRows>>
    BY DEF CallJoinHandler
  <1>3. PICK call : call = [op |-> op, chat |-> c0, row |-> <<>>]
    OBVIOUS
  <1>4. call.op = op /\ call.chat = c0 /\ call.row = <<>>
    BY <1>3
  <1>5. call = [op |-> call.op, chat |-> call.chat, row |-> call.row]
    BY <1>3, <1>4
  <1>6. registry' = [registry EXCEPT ![h] = call]
    BY <1>1, <1>3 DEF OnChatLeave, OnChatJoin
  <1>7. /\ t \in Job /\ t.kind = task[h].kind /\ t.all = task[h].all /\ t.scope = task[h].scope
        /\ t.todo = task[h].todo \ {c0}
    BY <1>1, TaskNow DEF Job
  <1>8. task'[h] = t /\ (\A g \in Handlers : g # h => task'[g] = task[g]) /\ task' \in [Handlers -> Job]
    BY <1>1, <1>7, TaskNow, ZenonT(30)
  <1>9. TaskTyped'
    BY <1>7, <1>8 DEF MembersInv, TaskTyped, Busy
  <1>10. CallOfTask(call, t)
    BY <1>1, <1>3, <1>7, TaskNow DEF CallOfTask
  <1>11. CallsTyped' /\ registry'[h] = call /\ \A g \in Handlers : g # h => registry'[g] = registry[g]
    BY <1>6, <1>8, <1>10, <1>5, CallTyped
  <1>12. MembersTyped'
    BY <1>2 DEF MembersInv, MembersTyped
  <1>13. \A g \in Handlers : task'[g].all = task[g].all /\ task'[g].kind = task[g].kind
    BY <1>7, <1>8
  <1>14. ASSUME NEW c \in Chats
         PROVE  /\ FindChat(c)' = FindChat(c)
                /\ c \in Settling' <=> c \in Settling
    BY <1>2, <1>13 DEF Settling, Remains, FindChat
  <1>15. ASSUME NEW c \in Chats, Worked(c, registry, task, FindChat(c)), c \in t.scope
         PROVE  Handled(call, t, FindChat(c), c)
    <2>1. Handled(NoCall, task[h], FindChat(c), c)
      BY <1>2, <1>7, <1>15 DEF Worked
    <2> QED
      BY <1>1, <1>3, <1>7, <2>1 DEF Handled, NoCall
  <1>16. ASSUME NEW c \in Chats, InStep(c)
         PROVE  Tracks(c, Settling, task', events, Len(events), tracked')
    BY <1>2, <1>13, <1>16 DEF InStep, Tracks
  <1>17. ASSUME NEW c \in Chats, Worked(c, registry, task, FindChat(c))
         PROVE  \E r : FindChat(c)' \subseteq {r}
    BY <1>14, <1>17 DEF Worked
  <1> QED
    BY <1>2, <1>7, <1>8, <1>9, <1>11, <1>12, <1>14, <1>15, <1>16, <1>17, WorkFollowed

(* JoinHandlerReturns: the chat is done, or excused.                       *)
LEMMA JoinHandlerReturnsFollowed ==
  ASSUME MembersInv, NEW h \in Handlers, JoinHandlerReturns(h)
  PROVE  MembersInv'
  <1>1. /\ registry[h].op \in {"done", "failed"}
        /\ registry' = [registry EXCEPT ![h] = NoCall]
        /\ excused' = IF registry[h].op = "failed" THEN excused \cup {registry[h].chat} ELSE excused
        /\ UNCHANGED <<present, inGuild, events, tracked, task, chatRows>>
    BY DEF JoinHandlerReturns, Returned
  <1>2. NoCall = [op |-> NoCall.op, chat |-> NoCall.chat, row |-> NoCall.row] /\ NoCall.op = "none"
    BY DEF NoCall
  <1>3. CallOfTask(NoCall, task[h])
    BY DEF CallOfTask, NoCall
  <1>4. CallsTyped' /\ registry'[h] = NoCall /\ \A g \in Handlers : g # h => registry'[g] = registry[g]
    BY <1>1, <1>2, <1>3, CallTyped
  <1>5. MembersTyped' /\ TaskTyped'
    BY <1>1 DEF MembersInv, MembersTyped, TaskTyped, Busy
  <1>6. \A c \in Chats : FindChat(c)' = FindChat(c) /\ (c \in Settling' <=> c \in Settling)
    BY <1>1 DEF Settling, FindChat
  <1>7. ASSUME NEW c \in Chats \ excused', Worked(c, registry, task, FindChat(c)), c \in task[h].scope
        PROVE  Handled(NoCall, task[h], FindChat(c), c)
    <2>1. Handled(registry[h], task[h], FindChat(c), c)
      BY <1>7 DEF Worked
    <2>2. registry[h].chat = c => registry[h].op = "done"
      BY <1>1, <1>7
    <2> QED
      BY <2>1, <2>2 DEF Handled, NoCall
  <1>8. ASSUME NEW c \in Chats, Worked(c, registry, task, FindChat(c))
        PROVE  \E r : FindChat(c)' \subseteq {r}
    BY <1>6, <1>8 DEF Worked
  <1>9. ASSUME NEW c \in Chats, InStep(c)
        PROVE  Tracks(c, Settling, task', events, Len(events), tracked')
    BY <1>1, <1>9 DEF InStep
  <1> QED
    BY <1>1, <1>4, <1>5, <1>6, <1>7, <1>8, <1>9, WorkFollowed

(* EndOfEvent: the rows are what the event asked for.                      *)
LEMMA EndOfEventFollowed ==
  ASSUME MembersInv, NEW h \in Handlers, EndOfEvent(h)
  PROVE  MembersInv'
  <1>1. /\ task[h].todo = {} /\ registry[h] = NoCall
        /\ tracked' = IF task[h].kind = "joinGuild" THEN (tracked \ Channels) \cup task[h].all ELSE tracked
        /\ task' = [task EXCEPT ![h] = NoTask]
        /\ UNCHANGED <<present, inGuild, events, excused, registry, chatRows>>
    BY DEF EndOfEvent, ReplaceGuild, registryVars
  <1>2. NoTask \in Job /\ NoTask.all = {} /\ NoTask.todo = {} /\ NoTask.scope = {} /\ NoTask.kind = "none"
    BY DEF NoTask, Job
  <1>3. task'[h] = NoTask /\ (\A g \in Handlers : g # h => task'[g] = task[g]) /\ task' \in [Handlers -> Job]
    BY <1>1, <1>2, TaskNow
  <1>4. MembersTyped'
    BY <1>1 DEF MembersInv, MembersTyped
  <1>5. TaskTyped'
    BY <1>2, <1>3 DEF MembersInv, TaskTyped, Busy
  <1>6. CallsTyped'
    <2>1. registry[h].op = "none"
      <3>1. registry[h] = NoCall /\ NoCall.op = "none"
        BY <1>1 DEF NoCall
      <3> QED
        BY <3>1
    <2>2. \A t : CallOfTask(registry[h], t)
      BY <2>1 DEF CallOfTask
    <2> QED
      BY <1>1, <1>3, <2>2 DEF MembersInv, CallsTyped
  <1>7. ASSUME NEW c \in Chats, c \in task[h].scope, Worked(c, registry, task, FindChat(c))
        PROVE  /\ c \in task[h].all => (FindChat(c) = {} <=> task[h].kind = "leave")
               /\ task[h].kind = "joinGuild" /\ c \notin task[h].all => FindChat(c) = {}
               /\ \A g \in Handlers : g # h => c \notin task[g].all
    <2>1. Handled(NoCall, task[h], FindChat(c), c)
      BY <1>1, <1>7 DEF Worked
    <2>2. \A g \in Handlers : g # h => c \notin task[g].scope
      BY <1>7 DEF Worked, OneHandler
    <2> QED
      BY <1>1, <1>7, <2>1, <2>2, TaskNow DEF Handled, NoCall
  <1>8. ASSUME NEW c \in Chats, Worked(c, registry, task, FindChat(c))
        PROVE  c \in Settling' <=> c \in Settling
    <2>1. PICK rows : rows = FindChat(c)
      OBVIOUS
    <2>2. (c \in Settling <=> Remains(c, task, rows)) /\ (c \in Settling' <=> Remains(c, task', rows))
      BY <1>1, <2>1 DEF Settling, FindChat
    <2>3. CASE c \in task[h].all
      <3>1. /\ rows = {} <=> task[h].kind = "leave"
            /\ \A g \in Handlers : g # h => c \notin task[g].all
        BY <1>7, <1>8, <2>1, <2>3, TaskNow
      <3>2. Remains(c, task, rows) <=> rows # {}
        BY <2>3, <3>1 DEF Remains
      <3>3. Remains(c, task', rows) <=> rows # {}
        BY <1>2, <1>3, <3>1 DEF Remains
      <3> QED
        BY <2>2, <3>2, <3>3
    <2>4. CASE c \notin task[h].all
      BY <1>2, <1>3, <2>2, <2>4 DEF Remains
    <2> QED
      BY <2>3, <2>4
  <1>9. ASSUME NEW c \in Chats, InStep(c)
        PROVE  Tracks(c, Settling, task', events, Len(events), tracked')
    <2>1. Worked(c, registry, task, FindChat(c)) /\ Tracks(c, Settling, task, events, Len(events), tracked)
      BY <1>9 DEF InStep
    <2>2. CASE task[h].kind # "joinGuild"
      <3>1. \A g \in Handlers : task[g].kind = "joinGuild" => task'[g].kind = "joinGuild"
        BY <1>3, <2>2
      <3> QED
        BY <1>1, <2>1, <2>2, <3>1 DEF Tracks
    <2>3. CASE task[h].kind = "joinGuild"
      <3> SUFFICES ASSUME c \in Channels, c \in Settling
                   PROVE  c \in tracked'
        BY DEF Tracks
      <3>1. c \in task[h].scope
        BY <2>3, TaskNow
      <3>2. c \notin task[h].all => FindChat(c) = {} /\ \A g \in Handlers : c \notin task[g].all
        BY <1>7, <2>1, <2>3, <3>1
      <3>3. c \in task[h].all
        BY <3>2 DEF Settling, Remains
      <3> QED
        BY <1>1, <2>3, <3>3
    <2> QED
      BY <2>2, <2>3
  <1>10. ASSUME NEW c \in Chats, Worked(c, registry, task, FindChat(c))
         PROVE  FindChat(c)' = FindChat(c) /\ \E r : FindChat(c)' \subseteq {r}
    BY <1>1, <1>10 DEF Worked, FindChat
  <1>11. \A c \in Chats : FindChat(c)' = FindChat(c)
    BY <1>1 DEF FindChat
  <1> QED
    BY <1>1, <1>2, <1>3, <1>4, <1>5, <1>6, <1>8, <1>9, <1>10, <1>11, WorkFollowed

(* What the next step op of a call may find, by the last one.              *)
Proceeds(op, row, rows, next, q, last, kind) ==
    (\E r : rows \subseteq {r}) /\ (op = "insert" => rows = {}) /\ (op = "delete" => rows = {row}) =>
        /\ \E x : last \subseteq {x}
        /\ next = "insert" => last = {}
        /\ next = "delete" => last = {q}
        /\ next = "done" => (last = {} <=> kind = "leave")

(* The rows of other chats, and what a call makes of those of its own.     *)
LEMMA RegistryRows ==
  ASSUME MembersInv, NEW h \in Handlers, RegistryStep(h)
  PROVE  \E call :
            /\ registry' = [registry EXCEPT ![h] = call]
            /\ call = [op |-> call.op, chat |-> call.chat, row |-> call.row]
            /\ call.chat = registry[h].chat /\ registry[h].op # "none"
            /\ CallOfTask(call, task[h])
            /\ \A c : c # call.chat => FindChat(c)' = FindChat(c)
            /\ \A r : /\ FindChat(call.chat) \subseteq {r}
                      /\ Handled(registry[h], task[h], FindChat(call.chat), call.chat)
                      => /\ \E x : FindChat(call.chat)' \subseteq {x}
                         /\ Handled(call, task[h], FindChat(call.chat)', call.chat)
  <1>1. PICK op, c0, row, kind : op = registry[h].op /\ c0 = registry[h].chat /\ row = registry[h].row /\ kind = task[h].kind
    OBVIOUS
  <1>2. registry[h] = [op |-> op, chat |-> c0, row |-> row]
    BY <1>1, TaskNow
  <1>3. /\ op # "none" => /\ c0 \in task[h].all \ task[h].todo
                          /\ op \in IF kind = "leave" THEN {"lookup", "delete", "done", "failed"}
                                   ELSE {"find", "insert", "done", "failed"}
        /\ op = "delete" => row[1] = c0
    BY <1>1, TaskNow DEF CallOfTask
  <1>4. PICK rows : rows = FindChat(c0)
    OBVIOUS
  <1>5. ASSUME Handled(registry[h], task[h], rows, c0)
        PROVE  /\ op = "insert" => rows = {}
               /\ op = "delete" => rows = {row}
    BY <1>1, <1>5 DEF Handled
  <1>6. ASSUME NEW next, NEW q, op # "none", registry' = [registry EXCEPT ![h] = [op |-> next, chat |-> c0, row |-> q]],
               next \in IF kind = "leave" THEN {"delete", "done", "failed"} ELSE {"insert", "done", "failed"},
               next = "delete" => q[1] = c0,
               \A c : c # c0 => FindChat(c)' = FindChat(c),
               NEW last, last = FindChat(c0)', Proceeds(op, row, rows, next, q, last, kind)
        PROVE  \E call :
            /\ registry' = [registry EXCEPT ![h] = call]
            /\ call = [op |-> call.op, chat |-> call.chat, row |-> call.row]
            /\ call.chat = registry[h].chat /\ registry[h].op # "none"
            /\ CallOfTask(call, task[h])
            /\ \A c : c # call.chat => FindChat(c)' = FindChat(c)
            /\ \A r : /\ FindChat(call.chat) \subseteq {r}
                      /\ Handled(registry[h], task[h], FindChat(call.chat), call.chat)
                      => /\ \E x : FindChat(call.chat)' \subseteq {x}
                         /\ Handled(call, task[h], FindChat(call.chat)', call.chat)
    <2>1. PICK call : call = [op |-> next, chat |-> c0, row |-> q]
      OBVIOUS
    <2>2. call.op = next /\ call.chat = c0 /\ call.row = q
      BY <2>1
    <2>3. call = [op |-> call.op, chat |-> call.chat, row |-> call.row]
      BY <2>1, <2>2
    <2>4. registry' = [registry EXCEPT ![h] = call]
      BY <1>6, <2>1
    <2>5. CallOfTask(call, task[h])
      BY <1>1, <1>3, <1>6, <2>2 DEF CallOfTask
    <2>6. ASSUME NEW r, rows \subseteq {r}, Handled(registry[h], task[h], rows, c0)
          PROVE  (\E x : last \subseteq {x}) /\ Handled(call, task[h], last, c0)
      <3>1. /\ \E x : last \subseteq {x}
            /\ next = "insert" => last = {}
            /\ next = "delete" => last = {q}
            /\ next = "done" => (last = {} <=> kind = "leave")
        BY <1>5, <1>6, <2>6 DEF Proceeds
      <3>2. c0 \in task[h].all
        BY <1>3, <1>6
      <3>3. next # "none"
        BY <1>6
      <3>4. Handled(call, task[h], last, c0)
        BY <1>1, <2>2, <3>1, <3>2, <3>3 DEF Handled
      <3> QED
        BY <3>1, <3>4
    <2>7. FindChat(call.chat) = rows /\ FindChat(call.chat)' = last
      BY <1>4, <1>6, <2>2
    <2>8. call.chat = registry[h].chat /\ registry[h].op # "none"
      BY <1>1, <1>6, <2>2
    <2>9. \A c : c # call.chat => FindChat(c)' = FindChat(c)
      BY <1>6, <2>2
    <2>10. \A r : /\ FindChat(call.chat) \subseteq {r}
                  /\ Handled(registry[h], task[h], FindChat(call.chat), call.chat)
                  => /\ \E x : FindChat(call.chat)' \subseteq {x}
                     /\ Handled(call, task[h], FindChat(call.chat)', call.chat)
      <3> SUFFICES ASSUME NEW r, FindChat(call.chat) \subseteq {r},
                          Handled(registry[h], task[h], FindChat(call.chat), call.chat)
                   PROVE  /\ \E x : FindChat(call.chat)' \subseteq {x}
                          /\ Handled(call, task[h], FindChat(call.chat)', call.chat)
        OBVIOUS
      <3>1. rows \subseteq {r} /\ Handled(registry[h], task[h], rows, c0)
        BY <2>2, <2>7
      <3>2. (\E x : last \subseteq {x}) /\ Handled(call, task[h], last, c0)
        BY <2>6, <3>1
      <3> QED
        BY <2>2, <2>7, <3>2
    <2> QED
      BY <2>3, <2>4, <2>5, <2>8, <2>9, <2>10
  <1>7. ASSUME NEW next, NEW q
        PROVE  [registry EXCEPT ![h].op = next, ![h].row = q]
                   = [registry EXCEPT ![h] = [op |-> next, chat |-> c0, row |-> q]]
    <2>1. PICK old, new : old = registry[h] /\ new = [old EXCEPT !.op = next]
      OBVIOUS
    <2>2. new = [op |-> next, chat |-> c0, row |-> row]
      BY <1>2, <2>1
    <2>3. [new EXCEPT !.row = q] = [op |-> next, chat |-> c0, row |-> q]
      BY <2>2
    <2>4. PICK reg : reg = [registry EXCEPT ![h].op = next]
      OBVIOUS
    <2>5. reg = [registry EXCEPT ![h] = new] /\ registry = [g \in Handlers |-> registry[g]]
      BY <2>1, <2>4, TaskNow
    <2>6. reg[h] = new
      BY <2>5
    <2>7. [registry EXCEPT ![h].op = next, ![h].row = q] = [reg EXCEPT ![h] = [new EXCEPT !.row = q]]
      BY <2>4, <2>6
    <2> QED
      BY <2>3, <2>5, <2>7
  <1>8. ASSUME NEW next
        PROVE  [registry EXCEPT ![h].op = next]
                   = [registry EXCEPT ![h] = [op |-> next, chat |-> c0, row |-> row]]
    <2>1. PICK old, new : old = registry[h] /\ new = [old EXCEPT !.op = next]
      OBVIOUS
    <2>2. new = [op |-> next, chat |-> c0, row |-> row]
      BY <1>2, <2>1
    <2> QED
      BY <2>1, <2>2
  <1>9. CASE DatabaseError(h)
    <2>1. PICK next : next = "failed"
      OBVIOUS
    <2>2. op # "none" /\ registry' = [registry EXCEPT ![h] = [op |-> next, chat |-> c0, row |-> row]]
      BY <1>1, <1>8, <1>9, <2>1 DEF DatabaseError, Step
    <2>3. (\A c : FindChat(c)' = FindChat(c)) /\ rows = FindChat(c0)'
      BY <1>4, <1>9 DEF DatabaseError, FindChat
    <2>4. Proceeds(op, row, rows, next, row, rows, kind)
      BY <2>1 DEF Proceeds
    <2> QED
      BY <1>6, <2>1, <2>2, <2>3, <2>4
  <1>10. CASE FindOrCreateChat(h)
    <2>1. PICK next : next = IF rows = {} THEN "insert" ELSE "done"
      OBVIOUS
    <2>2. op = "find" /\ registry' = [registry EXCEPT ![h] = [op |-> next, chat |-> c0, row |-> row]]
      BY <1>1, <1>4, <1>8, <1>10, <2>1 DEF FindOrCreateChat, Step
    <2>3. (\A c : FindChat(c)' = FindChat(c)) /\ rows = FindChat(c0)'
      BY <1>4, <1>10 DEF FindOrCreateChat, FindChat
    <2>4. kind # "leave"
      BY <1>3, <2>2
    <2>5. Proceeds(op, row, rows, next, row, rows, kind)
      BY <2>1, <2>4 DEF Proceeds
    <2> QED
      BY <1>6, <2>1, <2>2, <2>3, <2>4, <2>5
  <1>11. CASE RegisterChat(h)
    <2>1. PICK next, new, last : next = "done" /\ new = FreshRow(c0) /\ last = FindChat(c0)'
      OBVIOUS
    <2>2. /\ op = "insert" /\ registry' = [registry EXCEPT ![h] = [op |-> next, chat |-> c0, row |-> row]]
          /\ chatRows' = chatRows \cup {new}
      BY <1>1, <1>8, <1>11, <2>1 DEF RegisterChat, Step
    <2>3. new[1] = c0
      BY <2>1 DEF FreshRow
    <2>4. (\A c : c # c0 => FindChat(c)' = FindChat(c)) /\ last = rows \cup {new}
      BY <1>4, <2>1, <2>2, <2>3 DEF FindChat
    <2>5. kind # "leave"
      BY <1>3, <2>2
    <2>6. Proceeds(op, row, rows, next, row, last, kind)
      BY <2>1, <2>2, <2>4, <2>5 DEF Proceeds
    <2> QED
      BY <1>6, <2>1, <2>2, <2>4, <2>5, <2>6
  <1>12. CASE UnregisterChatByPlatformID(h)
    <2>1. op = "lookup" /\ kind = "leave" /\ (\A c : FindChat(c)' = FindChat(c)) /\ rows = FindChat(c0)'
      BY <1>1, <1>3, <1>4, <1>12 DEF UnregisterChatByPlatformID, FindChat
    <2>2. CASE rows = {} /\ Step(h, "done")
      <3>1. PICK next : next = "done"
        OBVIOUS
      <3>2. registry' = [registry EXCEPT ![h] = [op |-> next, chat |-> c0, row |-> row]]
        BY <1>8, <2>2, <3>1 DEF Step
      <3>3. Proceeds(op, row, rows, next, row, rows, kind)
        BY <2>1, <2>2, <3>1 DEF Proceeds
      <3> QED
        BY <1>6, <2>1, <3>1, <3>2, <3>3
    <2>3. CASE \E r \in rows : registry' = [registry EXCEPT ![h].op = "delete", ![h].row = r]
      <3>1. PICK q, next : /\ q \in rows /\ next = "delete"
                           /\ registry' = [registry EXCEPT ![h].op = next, ![h].row = q]
        BY <2>3
      <3>2. registry' = [registry EXCEPT ![h] = [op |-> next, chat |-> c0, row |-> q]]
        BY <1>7, <3>1
      <3>3. q[1] = c0
        BY <1>4, <3>1 DEF FindChat
      <3>4. Proceeds(op, row, rows, next, q, rows, kind)
        BY <3>1 DEF Proceeds
      <3> QED
        BY <1>6, <2>1, <3>1, <3>2, <3>3, <3>4
    <2> QED
      BY <1>1, <1>4, <1>12, <2>2, <2>3 DEF UnregisterChatByPlatformID
  <1>13. CASE UnregisterChat(h)
    <2>1. PICK next, last : next = "done" /\ last = FindChat(c0)'
      OBVIOUS
    <2>2. /\ op = "delete" /\ registry' = [registry EXCEPT ![h] = [op |-> next, chat |-> c0, row |-> row]]
          /\ chatRows' = chatRows \ {row}
      BY <1>1, <1>8, <1>13, <2>1 DEF UnregisterChat, Step
    <2>3. row[1] = c0 /\ kind = "leave"
      BY <1>3, <2>2
    <2>4. (\A c : c # c0 => FindChat(c)' = FindChat(c)) /\ last = rows \ {row}
      BY <1>4, <2>1, <2>2, <2>3 DEF FindChat
    <2>5. Proceeds(op, row, rows, next, row, last, kind)
      BY <2>1, <2>2, <2>3, <2>4 DEF Proceeds
    <2> QED
      BY <1>6, <2>1, <2>2, <2>3, <2>4, <2>5
  <1> QED
    BY <1>9, <1>10, <1>11, <1>12, <1>13 DEF RegistryStep

LEMMA RegistryStepFollowed ==
  ASSUME MembersInv, NEW h \in Handlers, RegistryStep(h),
         UNCHANGED <<present, inGuild, events, tracked, task, excused, changes, stops>>
  PROVE  MembersInv'
  <1>1. PICK call :
            /\ registry' = [registry EXCEPT ![h] = call]
            /\ call = [op |-> call.op, chat |-> call.chat, row |-> call.row]
            /\ call.chat = registry[h].chat /\ registry[h].op # "none"
            /\ CallOfTask(call, task[h])
            /\ \A c : c # call.chat => FindChat(c)' = FindChat(c)
            /\ \A r : /\ FindChat(call.chat) \subseteq {r}
                      /\ Handled(registry[h], task[h], FindChat(call.chat), call.chat)
                      => /\ \E x : FindChat(call.chat)' \subseteq {x}
                         /\ Handled(call, task[h], FindChat(call.chat)', call.chat)
    BY RegistryRows
  <1>2. CallsTyped' /\ registry'[h] = call /\ \A g \in Handlers : g # h => registry'[g] = registry[g]
    BY <1>1, CallTyped
  <1>3. MembersTyped' /\ TaskTyped'
    BY DEF MembersInv, MembersTyped, TaskTyped, Busy
  <1>4. call.chat \in task[h].all /\ call.chat \in task[h].scope
    BY <1>1, TaskNow DEF CallOfTask
  <1>5. ASSUME NEW c \in Chats, Worked(c, registry, task, FindChat(c))
        PROVE  /\ \E r : FindChat(c)' \subseteq {r}
               /\ c \in task[h].scope => Handled(call, task[h], FindChat(c)', c)
               /\ c \in Settling' <=> c \in Settling
    <2>1. c \in task[h].scope => Handled(registry[h], task[h], FindChat(c), c)
      BY <1>5 DEF Worked
    <2>2. CASE c = call.chat
      <3>1. PICK r : FindChat(c) \subseteq {r}
        BY <1>5 DEF Worked
      <3>2. (\E x : FindChat(c)' \subseteq {x}) /\ Handled(call, task[h], FindChat(c)', c)
        BY <1>1, <1>4, <2>1, <2>2, <3>1
      <3>3. c \in Settling' <=> c \in Settling
        BY <1>4, <2>2 DEF Settling, Remains
      <3> QED
        BY <3>2, <3>3
    <2>3. CASE c # call.chat
      <3>1. FindChat(c)' = FindChat(c)
        BY <1>1, <2>3
      <3>2. \E r : FindChat(c)' \subseteq {r}
        BY <1>5, <3>1 DEF Worked
      <3>3. c \in Settling' <=> c \in Settling
        BY <3>1 DEF Settling, Remains
      <3>4. c \in task[h].scope => Handled(call, task[h], FindChat(c), c)
        BY <1>1, <2>1, <2>3 DEF Handled, CallOfTask
      <3> QED
        BY <3>1, <3>2, <3>3, <3>4
    <2> QED
      BY <2>2, <2>3
  <1>6. ASSUME NEW c \in Chats, c \notin task[h].all
        PROVE  FindChat(c)' = FindChat(c)
    BY <1>1, <1>4, <1>6
  <1>7. ASSUME NEW c \in Chats, InStep(c)
        PROVE  Tracks(c, Settling, task', events, Len(events), tracked')
    BY <1>7 DEF InStep
  <1> QED
    BY <1>2, <1>3, <1>5, <1>6, <1>7, WorkFollowed

(* A restart: what was under way or on its way is excused.                 *)
LEMMA ProcessRestartsFollowed ==
  ASSUME MembersInv, ProcessRestarts
  PROVE  MembersInv'
  <1>1. PICK n \in Nat : n = Len(events) /\ DOMAIN events = 1..n /\ \A k \in 1..n : events[k] \in MemberEvent
    BY MembersNow
  <1>2. PICK e, os : e = Event("guildCreate", present \cap Channels) /\ os = IF inGuild THEN <<e>> ELSE <<>>
    OBVIOUS
  <1>3. /\ task' = [h \in Handlers |-> NoTask] /\ registry' = [h \in Handlers |-> NoCall]
        /\ tracked' = {} /\ events' = os /\ UNCHANGED <<present, inGuild, chatRows>>
        /\ excused' = excused \cup (UNION {task[h].scope : h \in Handlers})
                             \cup (UNION {Scope(events[i]) : i \in DOMAIN events})
    BY <1>2 DEF ProcessRestarts
  <1>4. /\ present \subseteq Chats /\ inGuild \in BOOLEAN /\ (~inGuild => present \cap Channels = {})
        /\ \A h \in Handlers : task[h].all \subseteq task[h].scope
    BY DEF MembersInv, MembersTyped, TaskTyped
  <1>5. /\ e \in MemberEvent /\ Scope(e) = Channels /\ e.chats = present \cap Channels
        /\ After(e) = present \cap Channels /\ e.kind = "guildCreate"
    BY <1>2, <1>4 DEF Event, MemberEvent, Scope, After, Arrivals, GuildKinds, ChannelKinds, Chats
  <1>6. MembersTyped'
    BY <1>2, <1>3, <1>4, <1>5 DEF MembersTyped
  <1>7. TaskTyped'
    BY <1>3 DEF TaskTyped, NoTask, Job, Busy
  <1>8. CallsTyped'
    BY <1>3 DEF CallsTyped, CallOfTask, NoCall
  <1>9. ASSUME NEW c \in Chats \ excused'
        PROVE  InStep(c)'
    <2>1. InStep(c) /\ (\A h \in Handlers : c \notin task[h].scope) /\ \A k \in 1..n : ~About(events[k], c)
      BY <1>1, <1>3, <1>9 DEF MembersInv, About
    <2>2. PICK rows : rows = FindChat(c)
      OBVIOUS
    <2>3. FindChat(c)' = rows
      BY <1>3, <2>2 DEF FindChat
    <2>4. c \in Settling <=> rows # {}
      BY <1>4, <2>1, <2>2 DEF Settling, Remains
    <2>5. c \in Settling' <=> rows # {}
      BY <1>3, <2>3 DEF Settling, Remains, NoTask
    <2>6. c \in Settling <=> c \in present
      BY <1>1, <2>1, NothingTold DEF InStep
    <2>7. Worked(c, registry', task', rows)
      BY <1>3, <2>1, <2>2 DEF InStep, Worked, OneHandler, NoTask
    <2>8. CASE inGuild
      <3>1. os = <<e>> /\ Len(os) = 0 + 1 /\ os[0 + 1] = e
        BY <1>2, <2>8
      <3>2. Leads(<<>>, 0, c, Settling', present)
        BY <2>4, <2>5, <2>6, LeadsEmpty
      <3>3. /\ About(e, c) => (c \in present <=> c \in After(e)) /\ (c \in present => c \in e.chats)
            /\ ~About(e, c) => (c \in present <=> c \in present)
        BY <1>5 DEF About
      <3>4. (\A k \in 1..0 : os[k] = <<>>[k]) /\ 0 \in Nat
        OBVIOUS
      <3>5. Leads(os, 0 + 1, c, Settling', present)
        BY <3>1, <3>2, <3>3, <3>4, LeadsAppend
      <3>6. c \in Channels => Awaited(os, 1, c)
        BY <1>5, <3>1 DEF Awaited
      <3> QED
        BY <1>3, <2>3, <2>7, <3>1, <3>5, <3>6 DEF InStep, Tracks
    <2>9. CASE ~inGuild
      <3>1. Len(os) = 0
        BY <1>2, <2>9
      <3>2. Leads(os, 0, c, Settling', present)
        BY <2>4, <2>5, <2>6, LeadsEmpty
      <3>3. c \in Channels => c \notin Settling'
        BY <1>4, <2>4, <2>5, <2>6, <2>9
      <3> QED
        BY <1>3, <2>3, <2>7, <3>1, <3>2, <3>3 DEF InStep, Tracks
    <2> QED
      BY <1>4, <2>8, <2>9
  <1> QED
    BY <1>6, <1>7, <1>8, <1>9 DEF MembersInv

(* Once every event is handled, the rows follow the platforms: for any     *)
(* number of handlers, chats, events, failures and restarts, a chat is     *)
(* registered exactly once if the bot is in it and not at all otherwise,   *)
(* unless one of its events failed, overlapped another or was missed.      *)
(* (internal/channel/telegram/bot.go, discord/bot.go and tracker.go.)      *)
THEOREM RowsFollowPlatforms == MembersSpec => []ChatsFollowPlatform
  <1>1. MembersInit => MembersInv
    <2> SUFFICES ASSUME MembersInit PROVE MembersInv
      OBVIOUS
    <2>1. MembersTyped
      <3>1. <<>> \in Seq(MemberEvent)
        OBVIOUS
      <3> QED
        BY <3>1 DEF MembersInit, MembersTyped
    <2>2. TaskTyped
      BY DEF MembersInit, TaskTyped, NoTask, Job, Busy
    <2>3. CallsTyped
      BY DEF MembersInit, RegistryInit, CallsTyped, CallOfTask, NoCall
    <2>4. ASSUME NEW c \in Chats
          PROVE  InStep(c)
      <3>1. FindChat(c) = {} /\ c \notin Settling /\ c \notin present /\ Len(events) = 0
        BY DEF MembersInit, RegistryInit, FindChat, Settling, Remains, NoTask
      <3>2. Worked(c, registry, task, FindChat(c))
        BY <3>1 DEF MembersInit, Worked, OneHandler, NoTask
      <3>3. Leads(events, 0, c, Settling, present)
        BY <3>1, LeadsEmpty
      <3> QED
        BY <3>1, <3>2, <3>3 DEF InStep, Tracks
    <2> QED
      BY <2>1, <2>2, <2>3, <2>4 DEF MembersInv
  <1>2. MembersInv /\ [MembersNext]_memberVars => MembersInv'
    <2> SUFFICES ASSUME MembersInv, [MembersNext]_memberVars PROVE MembersInv'
      OBVIOUS
    <2>1. CASE UNCHANGED memberVars
      <3>1. UNCHANGED <<present, inGuild, events, tracked, task, excused, registry, chatRows>>
        BY <2>1 DEF memberVars, registryVars
      <3>2. MembersTyped' /\ TaskTyped' /\ CallsTyped'
        BY <3>1 DEF MembersInv, MembersTyped, TaskTyped, CallsTyped, Busy
      <3>3. \A c \in Chats : InStep(c) => InStep(c)'
        BY <3>1 DEF InStep, FindChat, Settling
      <3> QED
        BY <3>1, <3>2, <3>3 DEF MembersInv
    <2> QED
      BY <2>1, PlatformFollowed, TakeEventFollowed, CallJoinHandlerFollowed, RegistryStepFollowed,
         JoinHandlerReturnsFollowed, EndOfEventFollowed, ProcessRestartsFollowed DEF MembersNext
  <1>3. MembersInv => ChatsFollowPlatform
    <2> SUFFICES ASSUME MembersInv, events = <<>>, \A h \in Handlers : ~Busy(h), NEW c \in Chats \ excused
                 PROVE  Cardinality(FindChat(c)) = IF c \in present THEN 1 ELSE 0
      BY DEF ChatsFollowPlatform, Chats
    <2>1. InStep(c) /\ Len(events) = 0
      BY DEF MembersInv
    <2>2. \A h \in Handlers : c \notin task[h].all
      BY DEF MembersInv, TaskTyped
    <2>3. c \in Settling <=> FindChat(c) # {}
      BY <2>2 DEF Settling, Remains
    <2>4. c \in Settling <=> c \in present
      BY <2>1, NothingTold DEF InStep
    <2>5. PICK r : FindChat(c) \subseteq {r}
      BY <2>1 DEF InStep, Worked
    <2>6. CASE FindChat(c) = {}
      BY <2>3, <2>4, <2>6, FS_EmptySet
    <2>7. CASE FindChat(c) = {r}
      BY <2>3, <2>4, <2>7, FS_Singleton
    <2> QED
      BY <2>5, <2>6, <2>7
  <1> QED
    BY <1>1, <1>2, <1>3, PTL DEF MembersSpec

-----------------------------------------------------------------------------
(* The tables of the university and the graph.  Nodes are found by id and  *)
(* by code, and rows refer to nodes that exist; of every key that is not   *)
(* in drift the graph says what the tables say.                            *)

NodeCodes == Codes \cup {"a", "b"}

Node == [id : Nat \ {0}, level : Levels, code : NodeCodes, up : Nat]

Position == [id : Nat, person : Persons, stream : Nat, group : Nat, active : BOOLEAN, subs : SUBSET Nat]

Post == [id : Nat, person : Persons, dept : Nat, active : BOOLEAN]

\* The record of the tables; what appointments, catalog and teaching hold is free.
DbShape(d) ==
    d = [nodes |-> d.nodes, next |-> d.next, persons |-> d.persons, linked |-> d.linked, positions |-> d.positions,
         posts |-> d.posts, appointments |-> d.appointments, catalog |-> d.catalog, teaching |-> d.teaching,
         graph |-> d.graph]

NodesTyped(nodes, next) ==
    /\ next \in Nat \ {0}
    /\ nodes \subseteq Node
    /\ \A n \in nodes : n.id < next
    /\ \A m, n \in nodes : m.id = n.id => m = n
    /\ \A m, n \in nodes : m.level = n.level /\ m.code = n.code => m = n
    /\ \A n \in nodes : n.level # Faculty => \E m \in nodes : m.id = n.up /\ m.level + 1 = n.level

IdsAt(nodes, l) == {n.id : n \in {m \in nodes : m.level = l}}

PersonsTyped(persons, linked) == linked \subseteq persons /\ persons \subseteq Persons

PositionsTyped(positions, nodes) ==
    /\ positions \subseteq Position
    /\ \A s \in positions : s.group \in IdsAt(nodes, Group) \cup {0} /\ s.subs \subseteq IdsAt(nodes, Subgroup)

PostsTyped(posts, nodes) ==
    /\ posts \subseteq Post
    /\ \A t \in posts : t.dept \in IdsAt(nodes, Department) \cup {0}

DbTyped(d) ==
    /\ DbShape(d)
    /\ NodesTyped(d.nodes, d.next)
    /\ PersonsTyped(d.persons, d.linked)
    /\ PositionsTyped(d.positions, d.nodes)
    /\ PostsTyped(d.posts, d.nodes)

MemberFollows(d, p) == OfMember(d, p) = Members(d, p)

ParentFollows(d, n) ==
    OfObject(d, "parent", n.level, n.code) = {<<"parent", n.level, n.code, CodeOf(d, n.up)>>}

StaffFollows(d, c) == OfObject(d, "staff", Department, c) = Staff(d, c)

\* Of the keys that are not in dr.
Follows(d, dr) ==
    /\ \A p \in Students \ {Anonymous} : Member(p) \notin dr => MemberFollows(d, p)
    /\ \A n \in d.nodes : n.level # Faculty /\ Parent(n.level, n.code) \notin dr => ParentFollows(d, n)
    /\ \A c \in NodeCodes : StaffOf(c) \notin dr => StaffFollows(d, c)

UniversityInv == DbTyped(uni) /\ Follows(uni, drift)

(* Relationships and keys of different kinds are different. *)
LEMMA KeysApart ==
  /\ \A p, l, c : Member(p) # Parent(l, c) /\ Parent(l, c) # Member(p)
  /\ \A p, c : Member(p) # StaffOf(c) /\ StaffOf(c) # Member(p)
  /\ \A l, b, c : Parent(l, b) # StaffOf(c) /\ StaffOf(c) # Parent(l, b)
  /\ \A p, q : Member(p) = Member(q) => p = q
  /\ \A b, c : StaffOf(b) = StaffOf(c) => b = c
  /\ \A l, b, k, c : Parent(l, b) = Parent(k, c) => l = k /\ b = c
  BY DEF Member, Parent, StaffOf

(* The memberships of a person come from the active positions. *)
LEMMA MemberOf ==
  ASSUME NEW d, NEW p, NEW t
  PROVE  t \in Members(d, p) <=>
            \E s \in d.positions : /\ s.person = p /\ s.active
                                   /\ \/ s.group # 0 /\ t = <<"member", Group, CodeOf(d, s.group), p>>
                                      \/ \E i \in s.subs : t = <<"member", Subgroup, CodeOf(d, i), p>>
  <1>1. t \in {<<"member", Group, CodeOf(d, s.group), p>> : s \in {u \in Active(d, p) : u.group # 0}}
          <=> \E s \in d.positions : s.person = p /\ s.active /\ s.group # 0 /\ t = <<"member", Group, CodeOf(d, s.group), p>>
    BY DEF Active
  <1>2. t \in {<<"member", Subgroup, CodeOf(d, i), p>> : i \in UNION {s.subs : s \in Active(d, p)}}
          <=> \E s \in d.positions : s.person = p /\ s.active /\ \E i \in s.subs : t = <<"member", Subgroup, CodeOf(d, i), p>>
    BY DEF Active
  <1> QED
    BY <1>1, <1>2 DEF Members

(* The staff of a code comes from the active posts at its department. *)
LEMMA StaffMember ==
  ASSUME NEW d, NEW c, NEW t
  PROVE  t \in Staff(d, c) <=>
            \E x \in d.posts : /\ x.active /\ x.person # Anonymous
                               /\ \E n \in d.nodes : n.level = Department /\ n.code = c /\ n.id = x.dept
                               /\ t = <<"staff", Department, c, x.person>>
  BY DEF Staff, Ids, NodeAt

(* A node is found by its id, and by its code. *)
LEMMA CodeFound ==
  ASSUME NEW d, NodesTyped(d.nodes, d.next), NEW n \in d.nodes
  PROVE  CodeOf(d, n.id) = n.code
  BY DEF NodesTyped, CodeOf

(* IdOf finds the one node that has a code at a level. *)
LEMMA AtFound ==
  ASSUME NEW d, NodesTyped(d.nodes, d.next), NEW l, NEW c, NodeAt(d, l, c) # {}
  PROVE  \E n \in d.nodes : /\ n.level = l /\ n.code = c /\ IdOf(NodeAt(d, l, c)) = n.id
                            /\ CodeOf(d, n.id) = c /\ n.id # 0 /\ n.id \in Nat
  <1>1. PICK n \in NodeAt(d, l, c) : IdOf(NodeAt(d, l, c)) = n.id
    BY DEF IdOf
  <1>2. n \in d.nodes /\ n.level = l /\ n.code = c
    BY DEF NodeAt
  <1> QED
    BY <1>1, <1>2, CodeFound DEF NodesTyped, Node

(* What a row says of its person depends on the codes of its nodes. *)
LEMMA SameMembers ==
  ASSUME NEW d, NEW e, NEW p,
         \A s : s.person = p => (s \in e.positions <=> s \in d.positions),
         \A s \in d.positions : s.person = p => /\ s.group # 0 => CodeOf(e, s.group) = CodeOf(d, s.group)
                                                /\ \A i \in s.subs : CodeOf(e, i) = CodeOf(d, i)
  PROVE  Members(e, p) = Members(d, p)
  <1>1. ASSUME NEW t PROVE t \in Members(e, p) <=> t \in Members(d, p)
    BY MemberOf
  <1> QED
    BY <1>1

(* Positions and memberships of some persons change.                       *)
OnlyPersons(d, e, P) ==
    /\ e.nodes = d.nodes /\ e.posts = d.posts
    /\ \A t : t[1] # "member" \/ t[4] \notin P => (t \in e.graph <=> t \in d.graph)
    /\ \A s : s.person \notin P => (s \in e.positions <=> s \in d.positions)

(* Two writes about the same persons are a write about them. *)
LEMMA OnlyPersonsTwice ==
  ASSUME NEW d, NEW e, NEW f, NEW P, OnlyPersons(d, e, P), OnlyPersons(e, f, P)
  PROVE  OnlyPersons(d, f, P)
  BY DEF OnlyPersons

(* A write about the persons P keeps what is said of everybody else, and of parents and staff. *)
LEMMA PersonsStep ==
  ASSUME NEW d, NEW e, NEW dr, NEW new, NEW P, Follows(d, dr), OnlyPersons(d, e, P),
         \A k \in dr : k \in new \/ \E p \in P : k = Member(p),
         \A p \in P : p # Anonymous /\ Member(p) \notin new => MemberFollows(e, p)
  PROVE  Follows(e, new)
  <1>0. /\ e.nodes = d.nodes /\ e.posts = d.posts
        /\ \A t : t[1] # "member" \/ t[4] \notin P => (t \in e.graph <=> t \in d.graph)
        /\ \A s : s.person \notin P => (s \in e.positions <=> s \in d.positions)
    BY DEF OnlyPersons
  <1>1. \A i : CodeOf(e, i) = CodeOf(d, i)
    BY <1>0 DEF CodeOf
  <1>2. ASSUME NEW q \in Students \ {Anonymous}, Member(q) \notin new
        PROVE  MemberFollows(e, q)
    <2>1. CASE q \in P
      BY <1>2, <2>1
    <2>2. CASE q \notin P
      <3>1. Members(e, q) = Members(d, q)
        BY <1>0, <1>1, <2>2, SameMembers
      <3>2. OfMember(e, q) = OfMember(d, q)
        <4>1. \A t : t[4] = q => (t \in e.graph <=> t \in d.graph)
          BY <1>0, <2>2
        <4> QED
          BY <4>1 DEF OfMember
      <3>3. Member(q) \notin dr
        BY <1>2, <2>2, KeysApart
      <3> QED
        BY <1>2, <3>1, <3>2, <3>3 DEF Follows, MemberFollows
    <2> QED
      BY <2>1, <2>2
  <1>3. ASSUME NEW n \in e.nodes, n.level # Faculty, Parent(n.level, n.code) \notin new
        PROVE  ParentFollows(e, n)
    <2>1. ParentFollows(d, n)
      BY <1>0, <1>3, KeysApart DEF Follows
    <2>2. OfObject(e, "parent", n.level, n.code) = OfObject(d, "parent", n.level, n.code)
      BY <1>0 DEF OfObject
    <2> QED
      BY <1>1, <2>1, <2>2 DEF ParentFollows
  <1>4. ASSUME NEW c \in NodeCodes, StaffOf(c) \notin new
        PROVE  StaffFollows(e, c)
    <2>1. StaffFollows(d, c)
      BY <1>4, KeysApart DEF Follows
    <2>2. OfObject(e, "staff", Department, c) = OfObject(d, "staff", Department, c)
      BY <1>0 DEF OfObject
    <2>3. Staff(e, c) = Staff(d, c)
      BY <1>0 DEF Staff, NodeAt
    <2> QED
      BY <2>1, <2>2, <2>3 DEF StaffFollows
  <1> QED
    BY <1>2, <1>3, <1>4 DEF Follows

(* A writer that gives a person exactly the memberships T.                 *)
LEMMA Rewritten ==
  ASSUME NEW d, NEW p, NEW T, \A t \in T : t[1] = "member" /\ t[4] = p,
         NEW e, e.graph = (d.graph \ OfMember(d, p)) \cup T
  PROVE  /\ OfMember(e, p) = T
         /\ \A t : t[1] # "member" \/ t[4] # p => (t \in e.graph <=> t \in d.graph)
  BY DEF OfMember

(* The relationship of a synchronized position is a membership of its person. *)
LEMMA GroupTupleOf ==
  ASSUME NEW p, NEW gc, NEW act
  PROVE  \A t \in GroupTuple(p, gc, act) : t[1] = "member" /\ t[4] = p
  <1> SUFFICES ASSUME NEW t \in GroupTuple(p, gc, act)
               PROVE  t[1] = "member" /\ t[4] = p
    OBVIOUS
  <1>1. t = <<"member", Group, gc, p>>
    BY DEF GroupTuple
  <1> QED
    BY <1>1

(* The upsert of a person changes persons and links only. *)
LEMMA UpsertPersonDb ==
  ASSUME NEW d, DbTyped(d), NEW p \in Persons, NEW r, NEW e, e = UpsertPerson(d, p, r), NEW P
  PROVE  DbTyped(e) /\ OnlyPersons(d, e, P) /\ e.graph = d.graph /\ e.positions = d.positions /\ e.next = d.next
  <1> DEFINE y == IF r THEN d.linked \cup {p} ELSE d.linked
  <1>1. e = [d EXCEPT !.persons = d.persons \cup {p}, !.linked = y] /\ DbShape(d)
    BY DEF UpsertPerson, DbTyped
  <1>2. PersonsTyped(d.persons \cup {p}, y)
    BY DEF DbTyped, PersonsTyped
  <1> HIDE DEF y
  <1>3. /\ DbShape(e) /\ e.graph = d.graph /\ e.nodes = d.nodes /\ e.next = d.next /\ e.persons = d.persons \cup {p}
        /\ e.linked = y /\ e.positions = d.positions /\ e.posts = d.posts
    BY <1>1 DEF DbShape
  <1> QED
    BY <1>2, <1>3 DEF DbTyped, OnlyPersons

(* A new id is later than the ids of all nodes. *)
LEMMA NextLater ==
  ASSUME NEW nodes, NEW next, NodesTyped(nodes, next)
  PROVE  NodesTyped(nodes, next + 1) /\ next + 1 \in Nat /\ next \in Nat
  <1>1. next \in Nat \ {0} /\ \A n \in nodes : n.id \in Nat /\ n.id < next
    BY DEF NodesTyped, Node
  <1>2. \A n \in nodes : n.id < next + 1
    BY <1>1
  <1> QED
    BY <1>1, <1>2 DEF NodesTyped

\* e differs from d in positions, the graph and the counter of ids at most.
PositionsOnly(d, e) ==
    /\ DbShape(e) /\ e.nodes = d.nodes /\ e.persons = d.persons /\ e.linked = d.linked /\ e.posts = d.posts
    /\ e.next = d.next \/ e.next = d.next + 1

(* Positions that refer to nodes keep the tables well formed. *)
LEMMA PositionsDb ==
  ASSUME NEW d, DbTyped(d), NEW e, PositionsOnly(d, e), PositionsTyped(e.positions, d.nodes)
  PROVE  DbTyped(e)
  BY NextLater DEF DbTyped, PositionsOnly

(* An update of relationships changes the graph only. *)
LEMMA GraphDb ==
  ASSUME NEW d, DbTyped(d), NEW x, NEW e, e = [d EXCEPT !.graph = x]
  PROVE  /\ DbTyped(e) /\ e.graph = x /\ e.positions = d.positions /\ e.nodes = d.nodes /\ e.posts = d.posts
         /\ e.next = d.next
  <1>1. PositionsOnly(d, e) /\ e.graph = x /\ e.positions = d.positions /\ e.next = d.next
    BY DEF DbTyped, DbShape, PositionsOnly
  <1>2. PositionsTyped(e.positions, d.nodes)
    BY <1>1 DEF DbTyped
  <1> QED
    BY <1>1, <1>2, PositionsDb DEF PositionsOnly

(* The levels of the hierarchy are different numbers. *)
LEMMA LevelsApart == /\ Faculty = 1 /\ Department = 2 /\ Program = 3 /\ Stream = 4 /\ Group = 5 /\ Subgroup = 6
                     /\ Levels = 1..6
  BY DEF Faculty, Department, Program, Stream, Group, Subgroup, Levels

(* A code that was found, or none, is stored as the id of a node or NULL. *)
LEMMA GroupTyped ==
  ASSUME NEW d, DbTyped(d), NEW l, NEW c, c = "" \/ NodeAt(d, l, c) # {}
  PROVE  (IF c = "" THEN 0 ELSE IdOf(NodeAt(d, l, c))) \in IdsAt(d.nodes, l) \cup {0}
  <1>1. CASE c = ""
    BY <1>1
  <1>2. CASE c # ""
    <2>1. NodesTyped(d.nodes, d.next) /\ NodeAt(d, l, c) # {}
      BY <1>2 DEF DbTyped
    <2>2. PICK n \in NodeAt(d, l, c) : IdOf(NodeAt(d, l, c)) = n.id
      BY <2>1 DEF IdOf
    <2>3. n \in d.nodes /\ n.level = l
      BY DEF NodeAt
    <2> QED
      BY <1>2, <2>2, <2>3 DEF IdsAt
  <1> QED
    BY <1>1, <1>2

(* Ids of nodes are positive. *)
LEMMA IdsNat ==
  ASSUME NEW nodes, NEW next, NodesTyped(nodes, next), NEW l
  PROVE  IdsAt(nodes, l) \subseteq Nat \ {0}
  BY DEF NodesTyped, IdsAt, Node

\* A new position of p.
LEMMA NewPosition ==
  ASSUME NEW p \in Persons, NEW i \in Nat, NEW s \in Nat, NEW g \in Nat, NEW act \in BOOLEAN, NEW subs \in SUBSET Nat,
         NEW x, x = [id |-> i, person |-> p, stream |-> s, group |-> g, active |-> act, subs |-> subs]
  PROVE  x \in Position /\ x.person = p /\ x.group = g /\ x.subs = subs /\ x.active = act
  BY DEF Position

(* syncStudentPositionTx keeps one group of the person and deletes the rest. *)
LEMMA SyncedPositionDb ==
  ASSUME NEW d, DbTyped(d), NEW p \in Students, NEW sc, NEW gc, NEW act \in BOOLEAN, Found(d, p, sc, gc),
         NEW e, e = SyncedPosition(d, p, sc, gc, act)
  PROVE  /\ DbTyped(e) /\ OnlyPersons(d, e, {p}) /\ OfMember(e, p) = GroupTuple(p, gc, act)
         /\ e.nodes = d.nodes
  <1> DEFINE s == IF sc = "" THEN 0 ELSE IdOf(NodeAt(d, Stream, sc))
             g == IF gc = "" THEN 0 ELSE IdOf(NodeAt(d, Group, gc))
             old == {x \in d.positions : x.person = p /\ x.group = g /\ g # 0}
             kept == {IF x \in old THEN [x EXCEPT !.stream = s, !.active = act] ELSE x : x \in d.positions}
             row == [id |-> d.next, person |-> p, stream |-> s, group |-> g, active |-> act, subs |-> {}]
             more == d.positions \cup {row}
  <1>1. \E f : /\ e = Touch(DeleteBySubject(f, p), GroupTuple(p, gc, act))
               /\ f = [d EXCEPT !.positions = kept] \/ f = [d EXCEPT !.positions = more, !.next = @ + 1]
    BY DEF SyncedPosition
  <1> HIDE DEF s, g
  <1>2. s \in IdsAt(d.nodes, Stream) \cup {0}
    BY GroupTyped DEF Found, s
  <1>3. g \in IdsAt(d.nodes, Group) \cup {0}
    BY GroupTyped DEF Found, g
  <1>4. d.next \in Nat /\ PositionsTyped(d.positions, d.nodes) /\ NodesTyped(d.nodes, d.next) /\ p \in Persons
    BY DEF DbTyped, NodesTyped, Persons
  <1>5. s \in Nat /\ g \in Nat
    <2>1. IdsAt(d.nodes, Stream) \subseteq Nat /\ IdsAt(d.nodes, Group) \subseteq Nat
      BY <1>4, IdsNat
    <2> QED
      BY <1>2, <1>3, <2>1
  <1>6. PositionsTyped(kept, d.nodes) /\ \A x : x.person \notin {p} => (x \in kept <=> x \in d.positions)
    <2>1. \A x \in old : x.person = p /\ x \in d.positions
      OBVIOUS
    <2> HIDE DEF old
    <2>2. ASSUME NEW y \in kept
          PROVE  \E x \in d.positions : y = x \/ (x.person = p /\ y = [x EXCEPT !.stream = s, !.active = act])
      BY <2>1
    <2>3. ASSUME NEW x \in d.positions, x \notin old PROVE x \in kept
      BY <2>3
    <2> HIDE DEF kept
    <2>4. ASSUME NEW y \in kept
          PROVE  \E x \in d.positions : /\ y \in Position /\ y.person = x.person /\ y.group = x.group /\ y.subs = x.subs
                                        /\ y = x \/ x.person = p
      <3>1. PICK x \in d.positions : y = x \/ (x.person = p /\ y = [x EXCEPT !.stream = s, !.active = act])
        BY <2>2
      <3>2. x \in Position
        BY <1>4 DEF PositionsTyped
      <3>3. CASE y = [x EXCEPT !.stream = s, !.active = act] /\ x.person = p
        <4>1. y \in Position /\ y.person = x.person /\ y.group = x.group /\ y.subs = x.subs
          BY <1>5, <3>2, <3>3 DEF Position
        <4> QED
          BY <3>3, <4>1
      <3> QED
        BY <3>1, <3>2, <3>3
    <2>5. PositionsTyped(kept, d.nodes)
      BY <1>4, <2>4 DEF PositionsTyped
    <2> QED
      BY <2>1, <2>3, <2>4, <2>5
  <1>7. PositionsTyped(more, d.nodes) /\ \A x : x.person \notin {p} => (x \in more <=> x \in d.positions)
    <2> HIDE DEF row
    <2>1. row \in Position /\ row.person = p /\ row.group = g /\ row.subs = {}
      BY <1>4, <1>5, NewPosition DEF row
    <2> QED
      BY <1>3, <1>4, <2>1, SMTT(30) DEF PositionsTyped
  <1> HIDE DEF kept, more
  <1>8. PICK f : /\ e = Touch(DeleteBySubject(f, p), GroupTuple(p, gc, act))
                 /\ f = [d EXCEPT !.positions = kept] \/ f = [d EXCEPT !.positions = more, !.next = @ + 1]
    BY <1>1
  <1>9. /\ PositionsOnly(d, f) /\ f.graph = d.graph
        /\ f.positions = kept \/ f.positions = more
    BY <1>8 DEF DbTyped, DbShape, PositionsOnly
  <1>10. PositionsTyped(f.positions, d.nodes) /\ \A x : x.person \notin {p} => (x \in f.positions <=> x \in d.positions)
    BY <1>6, <1>7, <1>9
  <1>11. DbTyped(f) /\ f.nodes = d.nodes /\ f.posts = d.posts
    BY <1>9, <1>10, PositionsDb DEF PositionsOnly
  <1> DEFINE graph == (f.graph \ OfMember(f, p)) \cup GroupTuple(p, gc, act)
  <1>12. e = [f EXCEPT !.graph = graph]
    BY <1>8, <1>11 DEF Touch, DeleteBySubject, OfMember, DbTyped, DbShape
  <1> HIDE DEF graph
  <1>13. DbTyped(e) /\ e.graph = graph /\ e.positions = f.positions /\ e.nodes = f.nodes /\ e.posts = f.posts
    BY <1>11, <1>12, GraphDb
  <1>14. /\ OfMember(e, p) = GroupTuple(p, gc, act)
         /\ \A t : t[1] # "member" \/ t[4] # p => (t \in e.graph <=> t \in f.graph)
    <2>1. e.graph = (f.graph \ OfMember(f, p)) \cup GroupTuple(p, gc, act)
      BY <1>13 DEF graph
    <2>2. \A t \in GroupTuple(p, gc, act) : t[1] = "member" /\ t[4] = p
      BY GroupTupleOf
    <2>3. PICK T : T = GroupTuple(p, gc, act)
      OBVIOUS
    <2>4. OfMember(e, p) = T /\ \A t : t[1] # "member" \/ t[4] # p => (t \in e.graph <=> t \in f.graph)
      BY <2>1, <2>2, <2>3 DEF OfMember
    <2> QED
      BY <2>3, <2>4
  <1> QED
    BY <1>9, <1>10, <1>11, <1>13, <1>14 DEF OnlyPersons

(* syncStudentSubgroupTx adds a subgroup to an active position of p and the relationship of it. *)
LEMMA AddSubgroupDb ==
  ASSUME NEW d, DbTyped(d), NEW p \in Persons, NEW c, NodeAt(d, Subgroup, c) # {}, NEW s \in Active(d, p),
         NEW e, e = AddSubgroup(d, p, c, s)
  PROVE  /\ DbTyped(e) /\ OnlyPersons(d, e, {p}) /\ e.nodes = d.nodes
         /\ OfMember(e, p) = OfMember(d, p) \cup {<<"member", Subgroup, c, p>>}
         /\ Members(e, p) = Members(d, p) \cup {<<"member", Subgroup, c, p>>}
  <1>1. NodesTyped(d.nodes, d.next) /\ PositionsTyped(d.positions, d.nodes)
    BY DEF DbTyped
  <1>2. PICK i : i = IdOf(NodeAt(d, Subgroup, c))
    OBVIOUS
  <1>3. i \in IdsAt(d.nodes, Subgroup) /\ CodeOf(d, i) = c /\ i \in Nat
    <2>1. PICK n \in NodeAt(d, Subgroup, c) : i = n.id
      BY <1>2 DEF IdOf
    <2>2. n \in d.nodes /\ n.level = Subgroup /\ n.code = c
      BY DEF NodeAt
    <2> QED
      BY <1>1, <2>1, <2>2, CodeFound DEF IdsAt, NodesTyped, Node
  <1>4. s \in d.positions /\ s.person = p /\ s.active /\ s \in Position
    BY <1>1 DEF Active, PositionsTyped
  <1>5. PICK z : z = [s EXCEPT !.subs = @ \cup {i}]
    OBVIOUS
  <1>6. z \in Position /\ z.person = p /\ z.active /\ z.group = s.group /\ z.subs = s.subs \cup {i}
    BY <1>3, <1>4, <1>5 DEF Position
  <1> DEFINE kept == {IF x = s THEN z ELSE x : x \in d.positions}
             graph == d.graph \cup {<<"member", Subgroup, c, p>>}
  <1>7. e = [d EXCEPT !.positions = kept, !.graph = graph]
    <2>1. kept = {IF x = s THEN [x EXCEPT !.subs = @ \cup {IdOf(NodeAt(d, Subgroup, c))}] ELSE x : x \in d.positions}
      BY <1>2, <1>5
    <2> QED
      BY <2>1 DEF AddSubgroup, Touch, DbTyped, DbShape
  <1>8. \A x : x \in kept <=> x = z \/ (x \in d.positions /\ x # s)
    BY <1>4
  <1> HIDE DEF kept
  <1>9. PositionsTyped(kept, d.nodes) /\ \A x : x.person \notin {p} => (x \in kept <=> x \in d.positions)
    BY <1>1, <1>3, <1>4, <1>6, <1>8 DEF PositionsTyped
  <1>10. \A t : t[1] # "member" \/ t[4] \notin {p} => (t \in graph <=> t \in d.graph)
    OBVIOUS
  <1>11. {t \in graph : t[1] = "member" /\ t[4] = p} = OfMember(d, p) \cup {<<"member", Subgroup, c, p>>}
    BY DEF OfMember
  <1> HIDE DEF graph
  <1>12. PositionsOnly(d, e) /\ e.positions = kept /\ e.graph = graph
    BY <1>7 DEF DbTyped, DbShape, PositionsOnly
  <1>13. DbTyped(e) /\ OnlyPersons(d, e, {p}) /\ e.nodes = d.nodes
    BY <1>9, <1>10, <1>12, PositionsDb DEF OnlyPersons, PositionsOnly
  <1>14. Members(e, p) = Members(d, p) \cup {<<"member", Subgroup, c, p>>}
    <2>1. \A j : CodeOf(e, j) = CodeOf(d, j)
      BY <1>13 DEF CodeOf
    <2>2. ASSUME NEW t \in Members(e, p) PROVE t \in Members(d, p) \/ t = <<"member", Subgroup, c, p>>
      <3>1. PICK x \in kept : /\ x.person = p /\ x.active
                              /\ \/ x.group # 0 /\ t = <<"member", Group, CodeOf(d, x.group), p>>
                                 \/ \E j \in x.subs : t = <<"member", Subgroup, CodeOf(d, j), p>>
        BY <1>12, <2>1, MemberOf
      <3>2. CASE x = z
        BY <1>3, <1>4, <1>6, <3>1, <3>2, MemberOf
      <3>3. CASE x \in d.positions
        BY <3>1, <3>3, MemberOf
      <3> QED
        BY <1>8, <3>2, <3>3
    <2>3. ASSUME NEW t \in Members(d, p) PROVE t \in Members(e, p)
      <3>1. PICK x \in d.positions : /\ x.person = p /\ x.active
                                     /\ \/ x.group # 0 /\ t = <<"member", Group, CodeOf(e, x.group), p>>
                                        \/ \E j \in x.subs : t = <<"member", Subgroup, CodeOf(e, j), p>>
        BY <2>1, MemberOf
      <3>2. CASE x = s
        <4>1. z \in e.positions
          BY <1>8, <1>12
        <4> QED
          BY <1>6, <3>1, <3>2, <4>1, MemberOf
      <3>3. CASE x # s
        BY <1>8, <1>12, <3>1, <3>3, MemberOf
      <3> QED
        BY <3>2, <3>3
    <2>4. <<"member", Subgroup, c, p>> \in Members(e, p)
      <3>1. z \in e.positions
        BY <1>8, <1>12
      <3>2. <<"member", Subgroup, c, p>> = <<"member", Subgroup, CodeOf(e, i), p>> /\ i \in z.subs
        BY <1>3, <1>6, <2>1
      <3> QED
        BY <1>6, <3>1, <3>2, MemberOf
    <2> QED
      BY <2>2, <2>3, <2>4
  <1> QED
    BY <1>11, <1>12, <1>13, <1>14 DEF OfMember

(* The member key of p is in drift exactly when the writer gave p less than the positions do. *)
LEMMA NarrowedStep ==
  ASSUME NEW p, Follows(uni, drift), OnlyPersons(uni, uni', {p}), NEW T, OfMember(uni', p) = T, Narrowed(p, T)
  PROVE  Follows(uni', drift')
  <1>1. \A k \in drift : k \in drift' \/ k = Member(p)
    BY DEF Narrowed
  <1>2. Member(p) \notin drift' => MemberFollows(uni', p)
    BY DEF Narrowed, MemberFollows
  <1> QED
    BY <1>1, <1>2, PersonsStep

(* The synchronization of a position puts the person into drift unless it wrote all memberships. *)
LEMMA SyncStudentPositionStep ==
  ASSUME UniversityInv, NEW p \in Students, NEW sc, NEW gc, NEW act \in BOOLEAN, SyncStudentPosition(p, sc, gc, act)
  PROVE  UniversityInv'
  <1>1. Found(uni, p, sc, gc) /\ uni' = SyncedPosition(uni, p, sc, gc, act) /\ Narrowed(p, GroupTuple(p, gc, act))
    BY DEF SyncStudentPosition, Save
  <1>2. DbTyped(uni') /\ OnlyPersons(uni, uni', {p}) /\ OfMember(uni', p) = GroupTuple(p, gc, act)
    BY <1>1, SyncedPositionDb DEF UniversityInv
  <1> QED
    BY <1>1, <1>2, NarrowedStep DEF UniversityInv

(* The synchronization of a subgroup adds the same membership to the table and the graph. *)
LEMMA SyncStudentSubgroupStep ==
  ASSUME UniversityInv, NEW p \in Students, NEW c, SyncStudentSubgroup(p, c)
  PROVE  UniversityInv'
  <1>1. PICK s \in Active(uni, p) : NodeAt(uni, Subgroup, c) # {} /\ uni' = AddSubgroup(uni, p, c, s) /\ drift' = drift
    BY DEF SyncStudentSubgroup, Save, Keeps
  <1>2. /\ DbTyped(uni') /\ OnlyPersons(uni, uni', {p})
        /\ OfMember(uni', p) = OfMember(uni, p) \cup {<<"member", Subgroup, c, p>>}
        /\ Members(uni', p) = Members(uni, p) \cup {<<"member", Subgroup, c, p>>}
    BY <1>1, AddSubgroupDb DEF UniversityInv, Persons
  <1>3. p # Anonymous /\ Member(p) \notin drift' => MemberFollows(uni', p)
    BY <1>1, <1>2 DEF UniversityInv, Follows, MemberFollows
  <1> QED
    BY <1>1, <1>2, <1>3, PersonsStep DEF UniversityInv

(* An import is the upsert of the person, the position and, when it is found, the subgroup. *)
LEMMA ImportStudentStep ==
  ASSUME UniversityInv, NEW p \in Students, NEW r, NEW sc, NEW gc, NEW act \in BOOLEAN, NEW c,
         ImportStudent(p, r, sc, gc, act, c)
  PROVE  UniversityInv'
  <1>1. PICK d1, d2 : d1 = UpsertPerson(uni, p, r) /\ d2 = SyncedPosition(d1, p, sc, gc, act)
    OBVIOUS
  <1>2. /\ Found(d1, p, sc, gc)
        /\ \/ uni' = d2 /\ Narrowed(p, GroupTuple(p, gc, act))
           \/ /\ NodeAt(d2, Subgroup, c) # {}
              /\ \E s \in Active(d2, p) : uni' = AddSubgroup(d2, p, c, s)
              /\ Narrowed(p, GroupTuple(p, gc, act) \cup {<<"member", Subgroup, c, p>>})
    BY <1>1 DEF ImportStudent, Save
  <1>3. DbTyped(d1) /\ OnlyPersons(uni, d1, {p})
    BY <1>1, UpsertPersonDb DEF UniversityInv, Persons
  <1>4. DbTyped(d2) /\ OnlyPersons(d1, d2, {p}) /\ OfMember(d2, p) = GroupTuple(p, gc, act)
    BY <1>1, <1>2, <1>3, SyncedPositionDb
  <1>5. OnlyPersons(uni, d2, {p})
    BY <1>3, <1>4, OnlyPersonsTwice
  <1>6. CASE uni' = d2 /\ Narrowed(p, GroupTuple(p, gc, act))
    BY <1>4, <1>5, <1>6, NarrowedStep DEF UniversityInv
  <1>7. CASE /\ NodeAt(d2, Subgroup, c) # {}
             /\ \E s \in Active(d2, p) : uni' = AddSubgroup(d2, p, c, s)
             /\ Narrowed(p, GroupTuple(p, gc, act) \cup {<<"member", Subgroup, c, p>>})
    <2>1. PICK s \in Active(d2, p) : uni' = AddSubgroup(d2, p, c, s)
      BY <1>7
    <2>2. /\ DbTyped(uni') /\ OnlyPersons(d2, uni', {p})
          /\ OfMember(uni', p) = GroupTuple(p, gc, act) \cup {<<"member", Subgroup, c, p>>}
      <3>1. p \in Persons
        BY DEF Persons
      <3>2. /\ DbTyped(uni') /\ OnlyPersons(d2, uni', {p})
            /\ OfMember(uni', p) = OfMember(d2, p) \cup {<<"member", Subgroup, c, p>>}
        BY <1>4, <1>7, <2>1, <3>1, AddSubgroupDb
      <3> QED
        BY <1>4, <3>2
    <2>3. OnlyPersons(uni, uni', {p})
      BY <1>5, <2>2, OnlyPersonsTwice
    <2> QED
      BY <1>7, <2>2, <2>3, NarrowedStep DEF UniversityInv
  <1> QED
    BY <1>2, <1>6, <1>7

(* The ids the handlers look up are those of a level. *)
LEMMA IdsAre ==
  ASSUME NEW d, NEW l
  PROVE  Ids(NodesOf(d, l)) = IdsAt(d.nodes, l)
  BY DEF Ids, NodesOf, IdsAt

(* The administration rewrites all memberships of the person from the positions. *)
LEMMA StorePositionsStep ==
  ASSUME UniversityInv, NEW p \in Persons, NEW positions, NEW next, StorePositions(p, positions, next),
         PositionsTyped(positions, uni.nodes), next = uni.next \/ next = uni.next + 1,
         \A s : s.person \notin {p} => (s \in positions <=> s \in uni.positions)
  PROVE  UniversityInv'
  <1>1. PICK f : f = [uni EXCEPT !.positions = positions, !.next = next]
    OBVIOUS
  <1>2. uni' = SyncStudentMemberTuple(f, p) /\ drift' = drift \ {Member(p)}
    BY <1>1 DEF StorePositions, Save
  <1>3. DbTyped(uni)
    BY DEF UniversityInv
  <1>4. PositionsOnly(uni, f) /\ f.graph = uni.graph /\ f.positions = positions
    BY <1>1, <1>3 DEF DbTyped, DbShape, PositionsOnly
  <1>5. DbTyped(f) /\ OnlyPersons(uni, f, {p})
    BY <1>3, <1>4, PositionsDb DEF OnlyPersons, PositionsOnly
  <1>6. CASE p = Anonymous
    <2>1. uni' = f
      BY <1>2, <1>6 DEF SyncStudentMemberTuple
    <2> QED
      BY <1>2, <1>5, <1>6, <2>1, PersonsStep DEF UniversityInv
  <1>7. CASE p # Anonymous
    <2> DEFINE graph == (f.graph \ OfMember(f, p)) \cup Members(f, p)
    <2>1. uni' = [f EXCEPT !.graph = graph]
      <3>1. uni' = Touch(DeleteBySubject(f, p), Members(f, p))
        BY <1>2, <1>7 DEF SyncStudentMemberTuple
      <3> QED
        BY <1>5, <3>1 DEF Touch, DeleteBySubject, OfMember, DbTyped, DbShape
    <2>2. \A t \in Members(f, p) : t[1] = "member" /\ t[4] = p
      BY MemberOf
    <2>3. /\ {t \in graph : t[1] = "member" /\ t[4] = p} = Members(f, p)
          /\ \A t : t[1] # "member" \/ t[4] \notin {p} => (t \in graph <=> t \in f.graph)
      BY <2>2 DEF OfMember
    <2> HIDE DEF graph
    <2>4. DbTyped(uni') /\ uni'.graph = graph /\ uni'.positions = f.positions /\ uni'.nodes = f.nodes /\ uni'.posts = f.posts
      BY <1>5, <2>1, GraphDb
    <2>5. OnlyPersons(f, uni', {p})
      BY <2>3, <2>4 DEF OnlyPersons
    <2>6. OnlyPersons(uni, uni', {p})
      BY <1>5, <2>5, OnlyPersonsTwice
    <2>7. OfMember(uni', p) = Members(f, p)
      BY <2>3, <2>4 DEF OfMember
    <2>8. Members(uni', p) = Members(f, p)
      <3>1. \A i : CodeOf(uni', i) = CodeOf(f, i)
        BY <2>4 DEF CodeOf
      <3> QED
        BY <2>4, <3>1, SameMembers
    <2>9. MemberFollows(uni', p)
      BY <2>7, <2>8 DEF MemberFollows
    <2>10. \A k \in drift : k \in drift' \/ k = Member(p)
      BY <1>2
    <2>11. Follows(uni', drift')
      BY <2>6, <2>9, <2>10, PersonsStep DEF UniversityInv
    <2> QED
      BY <2>4, <2>11 DEF UniversityInv
  <1> QED
    BY <1>6, <1>7

(* The administration creates a position of a linked person. *)
LEMMA CreateStudentPositionStep ==
  ASSUME UniversityInv, NEW p, NEW g, NEW act \in BOOLEAN, NEW subs, HandleCreateStudentPosition(p, g, act, subs)
  PROVE  UniversityInv'
  <1>1. /\ p \in uni.linked /\ g \in IdsAt(uni.nodes, Group) /\ subs \subseteq IdsAt(uni.nodes, Subgroup)
        /\ CreateStudentPosition(p, g, act, subs)
    BY IdsAre DEF HandleCreateStudentPosition, RequirePerson, ValidateStudentPositionRequest
  <1>2. /\ p \in Persons /\ uni.next \in Nat /\ NodesTyped(uni.nodes, uni.next)
        /\ PositionsTyped(uni.positions, uni.nodes)
    BY <1>1 DEF UniversityInv, DbTyped, PersonsTyped, NodesTyped
  <1>3. /\ IdsAt(uni.nodes, Group) \subseteq Nat \ {0} /\ IdsAt(uni.nodes, Subgroup) \subseteq Nat \ {0}
    BY <1>2, IdsNat
  <1>4. PICK z : z = [id |-> uni.next, person |-> p, stream |-> 0, group |-> g, active |-> act, subs |-> subs]
    OBVIOUS
  <1>5. z \in Position /\ z.person = p /\ z.group = g /\ z.subs = subs
    <2>1. g \in Nat /\ subs \subseteq Nat
      BY <1>1, <1>3
    <2> QED
      BY <1>2, <1>4, <2>1 DEF Position
  <1>6. PICK more : more = uni.positions \cup {z}
    OBVIOUS
  <1>7. PositionsTyped(more, uni.nodes) /\ \A s : s.person \notin {p} => (s \in more <=> s \in uni.positions)
    BY <1>1, <1>2, <1>5, <1>6 DEF PositionsTyped
  <1>8. StorePositions(p, more, uni.next + 1)
    BY <1>1, <1>4, <1>6 DEF CreateStudentPosition
  <1> QED
    BY <1>2, <1>7, <1>8, StorePositionsStep

(* The administration changes group, state and subgroups of a position. *)
LEMMA UpdateStudentPositionStep ==
  ASSUME UniversityInv, NEW s \in uni.positions, NEW g, NEW act \in BOOLEAN, NEW subs,
         HandleUpdateStudentPosition(s, g, act, subs)
  PROVE  UniversityInv'
  <1>1. /\ g \in IdsAt(uni.nodes, Group) /\ subs \subseteq IdsAt(uni.nodes, Subgroup)
        /\ UpdateStudentPosition(s, g, act, subs)
    BY IdsAre DEF HandleUpdateStudentPosition, ValidateStudentPositionRequest
  <1>2. /\ NodesTyped(uni.nodes, uni.next) /\ PositionsTyped(uni.positions, uni.nodes)
    BY DEF UniversityInv, DbTyped
  <1>3. /\ IdsAt(uni.nodes, Group) \subseteq Nat \ {0} /\ IdsAt(uni.nodes, Subgroup) \subseteq Nat \ {0}
    BY <1>2, IdsNat
  <1>4. PICK z : z = [s EXCEPT !.group = g, !.active = act, !.subs = subs]
    OBVIOUS
  <1>5. s \in Position /\ s.person \in Persons
    BY <1>2 DEF PositionsTyped, Position
  <1>6. z \in Position /\ z.person = s.person /\ z.group = g /\ z.subs = subs
    BY <1>1, <1>3, <1>4, <1>5 DEF Position
  <1>7. PICK kept : kept = (uni.positions \ {s}) \cup {z}
    OBVIOUS
  <1>8. PositionsTyped(kept, uni.nodes) /\ \A x : x.person \notin {s.person} => (x \in kept <=> x \in uni.positions)
    BY <1>1, <1>2, <1>6, <1>7 DEF PositionsTyped
  <1>9. StorePositions(s.person, kept, uni.next)
    BY <1>1, <1>4, <1>7 DEF UpdateStudentPosition
  <1> QED
    BY <1>5, <1>8, <1>9, StorePositionsStep

(* The administration deletes a position. *)
LEMMA DeleteStudentPositionStep ==
  ASSUME UniversityInv, NEW s \in uni.positions, HandleDeleteStudentPosition(s)
  PROVE  UniversityInv'
  <1>1. PositionsTyped(uni.positions, uni.nodes)
    BY DEF UniversityInv, DbTyped
  <1>2. s.person \in Persons
    BY <1>1 DEF PositionsTyped, Position
  <1>3. PICK kept : kept = uni.positions \ {s}
    OBVIOUS
  <1>4. PositionsTyped(kept, uni.nodes) /\ \A x : x.person \notin {s.person} => (x \in kept <=> x \in uni.positions)
    BY <1>1, <1>3 DEF PositionsTyped
  <1>5. StorePositions(s.person, kept, uni.next)
    BY <1>3 DEF HandleDeleteStudentPosition, DeleteStudentPosition
  <1> QED
    BY <1>2, <1>4, <1>5, StorePositionsStep

(* A dean's update is by id and enqueues nothing: the keys of the persons concerned drift. *)
LEMMA DeanUpdateStep ==
  ASSUME UniversityInv, NEW g \in Ids(NodesOf(uni, Group)) \cup {0}, NEW act \in BOOLEAN,
         DeanUpdateStudentPosition(g, act)
  PROVE  UniversityInv'
  <1>1. PICK old : old = {s \in uni.positions : s.id = dean.pos}
    OBVIOUS
  <1>2. PICK new : new = {[s EXCEPT !.group = IF g = 0 THEN @ ELSE g, !.active = act] : s \in old}
    OBVIOUS
  <1>3. PICK x : x = (uni.positions \ old) \cup new
    OBVIOUS
  <1>4. PICK P : P = {s.person : s \in old}
    OBVIOUS
  <1>5. uni' = [uni EXCEPT !.positions = x] /\ drift' = drift \cup {Member(p) : p \in P}
    <2>1. {Member(p) : p \in {s.person : s \in old}} = {Member(s.person) : s \in old}
      OBVIOUS
    <2>2. (uni.positions \ {s \in uni.positions : s.id = dean.pos})
            \cup {[s EXCEPT !.group = IF g = 0 THEN @ ELSE g, !.active = act] : s \in {s \in uni.positions : s.id = dean.pos}} = x
      BY <1>1, <1>2, <1>3
    <2>3. {Member(s.person) : s \in {s \in uni.positions : s.id = dean.pos}} = {Member(p) : p \in P}
      BY <1>1, <1>4, <2>1
    <2> QED
      BY <2>2, <2>3 DEF DeanUpdateStudentPosition, Save
  <1>6. NodesTyped(uni.nodes, uni.next) /\ PositionsTyped(uni.positions, uni.nodes) /\ DbTyped(uni) /\ Follows(uni, drift)
    BY DEF UniversityInv, DbTyped
  <1>7. g \in IdsAt(uni.nodes, Group) \cup {0} /\ g \in Nat
    BY <1>6, IdsAre, IdsNat
  <1>8. \A y \in new : \E s \in old : /\ y \in Position /\ y.person = s.person /\ y.subs = s.subs
                                      /\ y.group = s.group \/ y.group = g
    <2> SUFFICES ASSUME NEW y \in new
                 PROVE  \E s \in old : /\ y \in Position /\ y.person = s.person /\ y.subs = s.subs
                                       /\ y.group = s.group \/ y.group = g
      OBVIOUS
    <2>1. PICK s \in old : y = [s EXCEPT !.group = IF g = 0 THEN @ ELSE g, !.active = act]
      BY <1>2
    <2>2. s \in Position
      BY <1>1, <1>6 DEF PositionsTyped
    <2> QED
      BY <1>7, <2>1, <2>2 DEF Position
  <1>9. old \subseteq uni.positions
    BY <1>1
  <1>10. PositionsTyped(x, uni.nodes)
    BY <1>3, <1>6, <1>7, <1>8, <1>9 DEF PositionsTyped
  <1>11. \A s : s.person \notin P => (s \in x <=> s \in uni.positions)
    BY <1>3, <1>4, <1>8
  <1>12. PositionsOnly(uni, uni') /\ uni'.graph = uni.graph /\ uni'.positions = x
    BY <1>5, <1>6 DEF DbTyped, DbShape, PositionsOnly
  <1>13. DbTyped(uni') /\ OnlyPersons(uni, uni', P)
    BY <1>6, <1>10, <1>11, <1>12, PositionsDb DEF PositionsOnly, OnlyPersons
  <1>14. \A k \in drift : k \in drift'
    BY <1>5
  <1>15. \A p \in P : Member(p) \in drift'
    BY <1>5
  <1>16. Follows(uni', drift')
    BY <1>6, <1>13, <1>14, <1>15, PersonsStep
  <1> QED
    BY <1>13, <1>16 DEF UniversityInv

\* e differs from d in persons, posts and the counter of ids at most.
PostsOnly(d, e) ==
    /\ DbShape(e) /\ e.nodes = d.nodes /\ e.positions = d.positions /\ e.graph = d.graph
    /\ PersonsTyped(e.persons, e.linked)
    /\ e.next = d.next \/ e.next = d.next + 1

(* Posts that refer to departments keep the tables well formed. *)
LEMMA PostsDb ==
  ASSUME NEW d, DbTyped(d), NEW e, PostsOnly(d, e), PostsTyped(e.posts, d.nodes)
  PROVE  DbTyped(e)
  BY NextLater DEF DbTyped, PostsOnly

\* The codes of departments.
CodesOf(d, depts) == {CodeOf(d, i) : i \in depts \cap Ids(NodesOf(d, Department))}

(* The code of a department concerned is refreshed. *)
LEMMA CodesFound ==
  ASSUME NEW d, NodesTyped(d.nodes, d.next), NEW depts, NEW n \in d.nodes, n.level = Department, n.id \in depts
  PROVE  n.code \in CodesOf(d, depts)
  <1>1. n.id \in depts \cap Ids(NodesOf(d, Department)) /\ CodeOf(d, n.id) = n.code
    BY CodeFound DEF Ids, NodesOf
  <1> QED
    BY <1>1 DEF CodesOf

\* graph is that of d with the staff of C written anew.
StaffRewritten(d, C, graph) ==
    graph = (d.graph \ UNION {OfObject(d, "staff", Department, c) : c \in C}) \cup UNION {Staff(d, c) : c \in C}

OnlyStaff(d, C, graph) ==
    /\ \A t : t[1] # "staff" => (t \in graph <=> t \in d.graph)
    /\ \A c \in C : {t \in graph : t[1] = "staff" /\ t[2] = Department /\ t[3] = c} = Staff(d, c)
    /\ \A c : c \notin C =>
         {t \in graph : t[1] = "staff" /\ t[2] = Department /\ t[3] = c} = OfObject(d, "staff", Department, c)

(* A refresh rewrites the staff of the codes given and nothing else. *)
LEMMA RefreshedGraph ==
  ASSUME NEW d, NEW C, NEW graph, StaffRewritten(d, C, graph)
  PROVE  OnlyStaff(d, C, graph)
  <1>1. \A c : \A t \in Staff(d, c) : t[1] = "staff" /\ t[2] = Department /\ t[3] = c
    BY StaffMember
  <1>2. \A t : t \in graph <=> \/ t \in d.graph /\ \A c \in C : t \notin OfObject(d, "staff", Department, c)
                               \/ \E c \in C : t \in Staff(d, c)
    BY DEF StaffRewritten
  <1>3. \A c, t : t \in OfObject(d, "staff", Department, c)
                    <=> t \in d.graph /\ t[1] = "staff" /\ t[2] = Department /\ t[3] = c
    BY DEF OfObject
  <1>4. \A t : t[1] # "staff" => (t \in graph <=> t \in d.graph)
    BY <1>1, <1>2, <1>3
  <1>5. ASSUME NEW c \in C
        PROVE  {t \in graph : t[1] = "staff" /\ t[2] = Department /\ t[3] = c} = Staff(d, c)
    <2>1. ASSUME NEW t
          PROVE  t \in {u \in graph : u[1] = "staff" /\ u[2] = Department /\ u[3] = c} <=> t \in Staff(d, c)
      BY <1>1, <1>2, <1>3
    <2> QED
      BY <2>1
  <1>6. ASSUME NEW c, c \notin C
        PROVE  {t \in graph : t[1] = "staff" /\ t[2] = Department /\ t[3] = c} = OfObject(d, "staff", Department, c)
    <2>1. ASSUME NEW t
          PROVE  t \in {u \in graph : u[1] = "staff" /\ u[2] = Department /\ u[3] = c}
                   <=> t \in OfObject(d, "staff", Department, c)
      BY <1>1, <1>2, <1>3, <1>6
    <2> QED
      BY <2>1
  <1> QED
    BY <1>4, <1>5, <1>6 DEF OnlyStaff

(* The trigger of the posts writes the staff of every department concerned. *)
LEMMA RefreshStep ==
  ASSUME NEW d, DbTyped(d), NEW dr, Follows(d, dr), NEW f, PostsOnly(d, f), PostsTyped(f.posts, d.nodes), NEW depts,
         \A t : t.dept \notin depts => (t \in f.posts <=> t \in d.posts),
         NEW e, e = RefreshDepartments(f, depts), NEW new, new = dr \ {StaffOf(c) : c \in CodesOf(e, depts)}
  PROVE  DbTyped(e) /\ Follows(e, new)
  <1> DEFINE C == CodesOf(f, depts)
  <1>0. PICK graph : StaffRewritten(f, C, graph)
    BY DEF StaffRewritten
  <1>1. DbTyped(f) /\ f.nodes = d.nodes /\ f.positions = d.positions /\ f.graph = d.graph
    BY PostsDb DEF PostsOnly
  <1>2. e = [f EXCEPT !.graph = graph]
    BY <1>0, <1>1 DEF StaffRewritten, RefreshDepartments, CodesOf, DbTyped, DbShape
  <1> HIDE DEF C
  <1>3. OnlyStaff(f, C, graph)
    BY <1>0, RefreshedGraph
  <1>4. /\ DbTyped(e) /\ e.graph = graph /\ e.positions = d.positions /\ e.nodes = d.nodes /\ e.posts = f.posts
    BY <1>1, <1>2, GraphDb
  <1>5. \A i : CodeOf(e, i) = CodeOf(d, i) /\ CodeOf(f, i) = CodeOf(d, i)
    BY <1>1, <1>4 DEF CodeOf
  <1>6. CodesOf(e, depts) = C
    BY <1>1, <1>4 DEF CodesOf, C, CodeOf, NodesOf
  <1>7. ASSUME NEW p \in Students \ {Anonymous}, Member(p) \notin new
        PROVE  MemberFollows(e, p)
    <2>1. MemberFollows(d, p)
      BY <1>7, KeysApart DEF Follows
    <2>2. Members(e, p) = Members(d, p)
      BY <1>4, <1>5, SameMembers
    <2>3. OfMember(e, p) = OfMember(d, p)
      BY <1>1, <1>3, <1>4 DEF OnlyStaff, OfMember
    <2> QED
      BY <2>1, <2>2, <2>3 DEF MemberFollows
  <1>8. ASSUME NEW n \in e.nodes, n.level # Faculty, Parent(n.level, n.code) \notin new
        PROVE  ParentFollows(e, n)
    <2>1. ParentFollows(d, n)
      BY <1>4, <1>8, KeysApart DEF Follows
    <2>2. OfObject(e, "parent", n.level, n.code) = OfObject(d, "parent", n.level, n.code)
      BY <1>1, <1>3, <1>4 DEF OnlyStaff, OfObject
    <2> QED
      BY <1>5, <2>1, <2>2 DEF ParentFollows
  <1>9. ASSUME NEW c \in NodeCodes, StaffOf(c) \notin new
        PROVE  StaffFollows(e, c)
    <2>0. Staff(e, c) = Staff(f, c)
      BY <1>1, <1>4 DEF Staff, NodeAt
    <2>1. CASE c \in C
      BY <1>3, <1>4, <2>0, <2>1 DEF OnlyStaff, StaffFollows, OfObject
    <2>2. CASE c \notin C
      <3>1. StaffFollows(d, c)
        BY <1>6, <1>9, <2>2, KeysApart DEF Follows
      <3>2. OfObject(e, "staff", Department, c) = OfObject(d, "staff", Department, c)
        BY <1>1, <1>3, <1>4, <2>2 DEF OnlyStaff, OfObject
      <3>3. ASSUME NEW n \in d.nodes, n.level = Department, n.code = c PROVE n.id \notin depts
        BY <1>1, <2>2, <3>3, CodesFound DEF C, DbTyped
      <3>4. ASSUME NEW t PROVE t \in Staff(f, c) <=> t \in Staff(d, c)
        BY <1>1, <3>3, StaffMember
      <3>5. Staff(f, c) = Staff(d, c)
        BY <3>4
      <3> QED
        BY <2>0, <3>1, <3>2, <3>5 DEF StaffFollows
    <2> QED
      BY <2>1, <2>2
  <1> QED
    BY <1>4, <1>7, <1>8, <1>9 DEF Follows

(* A change of posts refreshes the departments they had and those they get. *)
LEMMA SavePostStep ==
  ASSUME UniversityInv, NEW old \in SUBSET uni.posts, NEW new \in SUBSET Post, SavePost(old, new),
         \A t \in new : t.dept \in IdsAt(uni.nodes, Department) \cup {0}
  PROVE  UniversityInv'
  <1>1. PICK x, y, depts : /\ x = (uni.posts \ old) \cup new
                           /\ y = IF old = {} THEN uni.next + 1 ELSE uni.next
                           /\ depts = {t.dept : t \in old \cup new}
    OBVIOUS
  <1>2. PICK f : f = [uni EXCEPT !.posts = x, !.next = y]
    OBVIOUS
  <1>3. DbTyped(uni) /\ Follows(uni, drift)
    BY DEF UniversityInv
  <1>4. uni' = RefreshDepartments(f, depts)
    <2>1. f = [uni EXCEPT !.posts = (@ \ old) \cup new, !.next = IF old = {} THEN @ + 1 ELSE @]
      BY <1>1, <1>2, <1>3 DEF DbTyped, DbShape
    <2> QED
      BY <1>1, <2>1 DEF SavePost, Save
  <1>5. drift' = drift \ {StaffOf(c) : c \in CodesOf(uni', depts)}
    <2>1. drift' = drift \ {StaffOf(CodeOf(uni', i)) : i \in depts \cap Ids(NodesOf(uni', Department))}
      BY <1>1 DEF SavePost, Refreshed
    <2> QED
      BY <2>1 DEF CodesOf
  <1>6. PostsOnly(uni, f) /\ f.posts = x
    BY <1>1, <1>2, <1>3 DEF DbTyped, DbShape, PostsOnly
  <1>7. PostsTyped(x, uni.nodes)
    BY <1>1, <1>3 DEF DbTyped, PostsTyped
  <1>8. \A t : t.dept \notin depts => (t \in x <=> t \in uni.posts)
    BY <1>1
  <1> QED
    BY <1>3, <1>4, <1>5, <1>6, <1>7, <1>8, RefreshStep DEF UniversityInv

(* A new post is a row of the table. *)
LEMMA NewPostTyped ==
  ASSUME UniversityInv, NEW p \in Persons, NEW i \in IdsAt(uni.nodes, Department) \cup {0}, NEW act \in BOOLEAN
  PROVE  NewPost(p, i, act) \in Post /\ NewPost(p, i, act).dept = i
  <1>1. NodesTyped(uni.nodes, uni.next)
    BY DEF UniversityInv, DbTyped
  <1>2. i \in Nat
    BY <1>1, IdsNat
  <1> QED
    BY <1>1, <1>2 DEF NewPost, Post, NodesTyped

(* The synchronization of a teacher's position inserts a post, without department when it is unknown. *)
LEMMA SyncTeacherPositionStep ==
  ASSUME UniversityInv, NEW p, NEW c, SyncTeacherPosition(p, c)
  PROVE  UniversityInv'
  <1>1. DbTyped(uni) /\ p \in Persons
    BY DEF UniversityInv, SyncTeacherPosition, DbTyped, PersonsTyped
  <1>2. PICK i : i = IdOf(NodeAt(uni, Department, c))
    OBVIOUS
  <1>3. i \in IdsAt(uni.nodes, Department) \cup {0}
    <2>1. CASE NodeAt(uni, Department, c) = {}
      BY <1>2, <2>1 DEF IdOf
    <2>2. CASE NodeAt(uni, Department, c) # {}
      <3>1. PICK n \in NodeAt(uni, Department, c) : i = n.id
        BY <1>2, <2>2 DEF IdOf
      <3>2. n \in uni.nodes /\ n.level = Department
        BY DEF NodeAt
      <3> QED
        BY <3>1, <3>2 DEF IdsAt
    <2> QED
      BY <2>1, <2>2
  <1>4. PICK t : t = NewPost(p, i, TRUE)
    OBVIOUS
  <1>5. t \in Post /\ t.dept = i
    BY <1>1, <1>3, <1>4, NewPostTyped
  <1>6. SavePost({}, {t})
    BY <1>2, <1>4 DEF SyncTeacherPosition
  <1> QED
    BY <1>3, <1>5, <1>6, SavePostStep

(* The administration creates a post of a linked person. *)
LEMMA CreateTeacherPositionStep ==
  ASSUME UniversityInv, NEW p, NEW dept, NEW act \in BOOLEAN, HandleCreateTeacherPosition(p, dept, act)
  PROVE  UniversityInv'
  <1>1. p \in Persons
    BY DEF UniversityInv, HandleCreateTeacherPosition, RequirePerson, DbTyped, PersonsTyped
  <1>2. dept \in IdsAt(uni.nodes, Department)
    BY IdsAre DEF HandleCreateTeacherPosition, ValidateTeacherPositionRequest
  <1>3. PICK t : t = NewPost(p, dept, act)
    OBVIOUS
  <1>4. t \in Post /\ t.dept = dept
    BY <1>1, <1>2, <1>3, NewPostTyped
  <1>5. SavePost({}, {t})
    BY <1>3 DEF HandleCreateTeacherPosition, CreateTeacherPosition
  <1> QED
    BY <1>2, <1>4, <1>5, SavePostStep

(* The administration changes department and state of a post. *)
LEMMA UpdateTeacherPositionStep ==
  ASSUME UniversityInv, NEW t \in uni.posts, NEW dept, NEW act \in BOOLEAN, UpdateTeacherPosition(t, dept, act),
         dept \in IdsAt(uni.nodes, Department) \cup {0}
  PROVE  UniversityInv'
  <1>1. NodesTyped(uni.nodes, uni.next) /\ t \in Post
    BY DEF UniversityInv, DbTyped, PostsTyped
  <1>2. dept \in Nat
    BY <1>1, IdsNat
  <1>3. PICK u : u = [t EXCEPT !.dept = dept, !.active = act]
    OBVIOUS
  <1>4. u \in Post /\ u.dept = dept
    BY <1>1, <1>2, <1>3 DEF Post
  <1>5. SavePost({t}, {u})
    BY <1>3 DEF UpdateTeacherPosition
  <1> QED
    BY <1>4, <1>5, SavePostStep

(* The administration deletes a post. *)
LEMMA DeleteTeacherPositionStep ==
  ASSUME UniversityInv, NEW t \in uni.posts, HandleDeleteTeacherPosition(t)
  PROVE  UniversityInv'
  <1>1. SavePost({t}, {})
    BY DEF HandleDeleteTeacherPosition, DeleteTeacherPosition
  <1> QED
    BY <1>1, SavePostStep

(* The manual creation of a teacher upserts the person and inserts a post. *)
LEMMA CreateTeacherStep ==
  ASSUME UniversityInv, NEW p \in Persons, NEW r, NEW dept, NEW act \in BOOLEAN, CreateTeacher(p, r, dept, act)
  PROVE  UniversityInv'
  <1>1. PICK d, t : d = UpsertPerson(uni, p, r) /\ t = NewPost(p, dept, act)
    OBVIOUS
  <1>2. PICK f : f = [d EXCEPT !.posts = @ \cup {t}, !.next = @ + 1]
    OBVIOUS
  <1>3. /\ dept \in IdsAt(uni.nodes, Department) /\ uni' = RefreshDepartments(f, {dept}) /\ Refreshed({dept})
    BY <1>1, <1>2, IdsAre DEF CreateTeacher, Save
  <1>4. DbTyped(uni) /\ Follows(uni, drift)
    BY DEF UniversityInv
  <1>5. DbTyped(d) /\ OnlyPersons(uni, d, {}) /\ d.graph = uni.graph /\ d.positions = uni.positions /\ d.next = uni.next
    BY <1>1, <1>4, UpsertPersonDb
  <1>6. t \in Post /\ t.dept = dept
    BY <1>1, <1>3, NewPostTyped
  <1>7. drift' = drift \ {StaffOf(c) : c \in CodesOf(uni', {dept})}
    BY <1>3 DEF Refreshed, CodesOf
  <1>8. PostsOnly(uni, f) /\ f.posts = uni.posts \cup {t}
    BY <1>2, <1>5 DEF DbTyped, DbShape, PostsOnly, OnlyPersons
  <1>9. PostsTyped(f.posts, uni.nodes) /\ \A u : u.dept \notin {dept} => (u \in f.posts <=> u \in uni.posts)
    BY <1>3, <1>4, <1>6, <1>8 DEF DbTyped, PostsTyped
  <1> QED
    BY <1>3, <1>4, <1>7, <1>8, <1>9, RefreshStep DEF UniversityInv

\* One row of the hierarchy, z, is new or takes the place of the row with its id.
NodePut(d, e, z) ==
    /\ e.next = d.next \/ e.next = d.next + 1
    /\ z \in Node /\ z.id < e.next /\ z \in e.nodes
    /\ \A n \in e.nodes : n = z \/ (n \in d.nodes /\ n.id # z.id /\ ~(n.level = z.level /\ n.code = z.code))
    /\ \A n \in d.nodes : n \in e.nodes \/ (n.id = z.id /\ n.level = z.level)
    /\ z.level # Faculty => \E m \in d.nodes : m.id = z.up /\ m.level + 1 = z.level

(* Ids and codes stay unique, and every node has its parent, when one row is put. *)
LEMMA NodesPut ==
  ASSUME NEW d, NodesTyped(d.nodes, d.next), NEW e, NEW z, NodePut(d, e, z)
  PROVE  NodesTyped(e.nodes, e.next)
  <1>1. PICK N, next : N = e.nodes /\ next = e.next
    OBVIOUS
  <1>2. next \in Nat \ {0} /\ \A n \in d.nodes : n.id < next
    <2>1. d.next \in Nat \ {0} /\ \A n \in d.nodes : n.id \in Nat /\ n.id < d.next
      BY DEF NodesTyped, Node
    <2>2. next = d.next \/ next = d.next + 1
      BY <1>1 DEF NodePut
    <2> QED
      BY <2>1, <2>2
  <1>3. /\ z \in Node /\ z.id < next /\ z \in N
        /\ \A n \in N : n = z \/ (n \in d.nodes /\ n.id # z.id /\ ~(n.level = z.level /\ n.code = z.code))
        /\ \A n \in d.nodes : n \in N \/ (n.id = z.id /\ n.level = z.level)
    BY <1>1 DEF NodePut
  <1>4. \A n \in N : n.level # Faculty => \E m \in d.nodes : m.id = n.up /\ m.level + 1 = n.level
    BY <1>1, <1>3 DEF NodePut, NodesTyped
  <1>5. ASSUME NEW n \in N, n.level # Faculty
        PROVE  \E m \in N : m.id = n.up /\ m.level + 1 = n.level
    BY <1>3, <1>4, <1>5
  <1>6. N \subseteq Node /\ \A n \in N : n.id < next
    BY <1>2, <1>3 DEF NodesTyped
  <1>7. /\ \A m, n \in N : m.id = n.id => m = n
        /\ \A m, n \in N : m.level = n.level /\ m.code = n.code => m = n
    BY <1>3 DEF NodesTyped
  <1> QED
    BY <1>1, <1>2, <1>5, <1>6, <1>7 DEF NodesTyped

\* e differs from d in nodes, the graph and the counter of ids at most.
NodesOnly(d, e) ==
    /\ DbShape(e) /\ e.persons = d.persons /\ e.linked = d.linked /\ e.positions = d.positions /\ e.posts = d.posts

\* The keys whose relationships name the code of node n are in dr.
Named(d, n, dr) ==
    /\ \A s \in d.positions : s.group = n.id \/ n.id \in s.subs => Member(s.person) \in dr
    /\ \A m \in d.nodes : m.up = n.id /\ m.level = n.level + 1 => Parent(m.level, m.code) \in dr
    /\ StaffOf(n.code) \in dr

(* A row put into the hierarchy keeps what the keys outside drift say. *)
LEMMA NodeStep ==
  ASSUME NEW d, DbTyped(d), NEW dr, Follows(d, dr), NEW e, NEW z, NodePut(d, e, z), NodesOnly(d, e), NEW new,
         \A t : t[1] # "parent" \/ t[2] # z.level \/ t[3] # z.code => (t \in e.graph <=> t \in d.graph),
         \A k \in dr : k \in new \/ k = Parent(z.level, z.code),
         z.level # Faculty /\ Parent(z.level, z.code) \notin new => ParentFollows(e, z),
         \A n \in d.nodes : n.id = z.id /\ n.code # z.code => Named(d, n, new) /\ StaffOf(z.code) \in new
  PROVE  DbTyped(e) /\ Follows(e, new)
  <1>1. NodesTyped(e.nodes, e.next) /\ NodesTyped(d.nodes, d.next)
    BY NodesPut DEF DbTyped
  <1>2. /\ z \in Node /\ z \in e.nodes
        /\ \A n \in e.nodes : n = z \/ (n \in d.nodes /\ n.id # z.id /\ ~(n.level = z.level /\ n.code = z.code))
        /\ \A n \in d.nodes : n \in e.nodes \/ (n.id = z.id /\ n.level = z.level)
    BY DEF NodePut
  <1>3. ASSUME NEW l, NEW i \in IdsAt(d.nodes, l) PROVE i \in IdsAt(e.nodes, l)
    BY <1>2 DEF IdsAt
  <1>4. DbTyped(e)
    <2>1. PositionsTyped(e.positions, e.nodes) /\ PostsTyped(e.posts, e.nodes)
      BY <1>3 DEF DbTyped, PositionsTyped, PostsTyped, NodesOnly
    <2> QED
      BY <1>1, <2>1 DEF DbTyped, NodesOnly
  <1>5. ASSUME NEW n \in d.nodes, n.id # z.id \/ n.code = z.code
        PROVE  CodeOf(e, n.id) = n.code /\ CodeOf(d, n.id) = n.code
    <2>1. CodeOf(d, n.id) = n.code
      BY <1>1, CodeFound
    <2>2. CASE n \in e.nodes
      BY <1>1, <2>1, <2>2, CodeFound
    <2>3. CASE n \notin e.nodes
      <3>1. n.id = z.id /\ n.code = z.code
        BY <1>2, <1>5, <2>3
      <3>2. CodeOf(e, z.id) = z.code
        BY <1>1, <1>2, CodeFound
      <3> QED
        BY <2>1, <3>1, <3>2
    <2> QED
      BY <2>2, <2>3
  <1>6. ASSUME NEW p \in Students \ {Anonymous}, Member(p) \notin new
        PROVE  MemberFollows(e, p)
    <2>1. MemberFollows(d, p)
      BY <1>6, KeysApart DEF Follows
    <2>2. ASSUME NEW s \in d.positions, s.person = p
          PROVE  /\ s.group # 0 => CodeOf(e, s.group) = CodeOf(d, s.group)
                 /\ \A i \in s.subs : CodeOf(e, i) = CodeOf(d, i)
      <3>1. ASSUME NEW n \in d.nodes, s.group = n.id \/ n.id \in s.subs
            PROVE  CodeOf(e, n.id) = CodeOf(d, n.id)
        <4>1. n.id # z.id \/ n.code = z.code
          BY <1>6, <2>2, <3>1 DEF Named
        <4> QED
          BY <1>5, <4>1
      <3>2. /\ s.group # 0 => \E n \in d.nodes : s.group = n.id
            /\ \A i \in s.subs : \E n \in d.nodes : i = n.id
        BY DEF DbTyped, PositionsTyped, IdsAt
      <3> QED
        BY <3>1, <3>2
    <2>3. Members(e, p) = Members(d, p)
      BY <2>2, SameMembers DEF NodesOnly
    <2>4. OfMember(e, p) = OfMember(d, p)
      BY DEF OfMember
    <2> QED
      BY <2>1, <2>3, <2>4 DEF MemberFollows
  <1>7. ASSUME NEW n \in e.nodes, n.level # Faculty, Parent(n.level, n.code) \notin new
        PROVE  ParentFollows(e, n)
    <2>1. CASE n = z
      BY <1>7, <2>1
    <2>2. CASE n # z
      <3>1. n \in d.nodes /\ ~(n.level = z.level /\ n.code = z.code)
        BY <1>2, <2>2
      <3>2. ParentFollows(d, n)
        BY <1>7, <3>1, KeysApart DEF Follows
      <3>3. OfObject(e, "parent", n.level, n.code) = OfObject(d, "parent", n.level, n.code)
        BY <3>1 DEF OfObject
      <3>4. PICK m \in d.nodes : m.id = n.up /\ m.level + 1 = n.level
        BY <1>1, <1>7, <3>1 DEF NodesTyped
      <3>5. m.id # z.id \/ m.code = z.code
        BY <1>7, <3>1, <3>4 DEF Named
      <3>6. CodeOf(e, n.up) = CodeOf(d, n.up)
        BY <1>5, <3>4, <3>5
      <3> QED
        BY <3>2, <3>3, <3>6 DEF ParentFollows
    <2> QED
      BY <2>1, <2>2
  <1>8. ASSUME NEW c \in NodeCodes, StaffOf(c) \notin new
        PROVE  StaffFollows(e, c)
    <2>1. StaffFollows(d, c)
      BY <1>8, KeysApart DEF Follows
    <2>2. OfObject(e, "staff", Department, c) = OfObject(d, "staff", Department, c)
      BY DEF OfObject
    <2>3. \A x \in d.posts : x.dept # 0 => \E m \in d.nodes : m.level = Department /\ m.id = x.dept
      BY DEF DbTyped, PostsTyped, IdsAt
    <2>4. ASSUME NEW x \in d.posts
          PROVE  (\E n \in e.nodes : n.level = Department /\ n.code = c /\ n.id = x.dept)
                   <=> \E n \in d.nodes : n.level = Department /\ n.code = c /\ n.id = x.dept
      <3>1. ASSUME NEW n \in e.nodes, n.level = Department, n.code = c, n.id = x.dept
            PROVE  \E m \in d.nodes : m.level = Department /\ m.code = c /\ m.id = x.dept
        <4>1. CASE n = z
          <5>1. x.dept # 0
            BY <1>2, <3>1, <4>1 DEF Node
          <5>2. PICK m \in d.nodes : m.level = Department /\ m.id = x.dept
            BY <2>3, <5>1
          <5>3. m.code = c
            BY <1>8, <3>1, <4>1, <5>2
          <5> QED
            BY <5>2, <5>3
        <4>2. CASE n # z
          BY <1>2, <3>1, <4>2
        <4> QED
          BY <4>1, <4>2
      <3>2. ASSUME NEW n \in d.nodes, n.level = Department, n.code = c, n.id = x.dept
            PROVE  \E m \in e.nodes : m.level = Department /\ m.code = c /\ m.id = x.dept
        <4>1. CASE n \in e.nodes
          BY <3>2, <4>1
        <4>2. CASE n \notin e.nodes
          <5>1. n.id = z.id /\ n.level = z.level
            BY <1>2, <4>2
          <5>2. z.code = c
            BY <1>8, <3>2, <5>1 DEF Named
          <5> QED
            BY <1>2, <3>2, <5>1, <5>2
        <4> QED
          BY <4>1, <4>2
      <3> QED
        BY <3>1, <3>2
    <2>5. ASSUME NEW t PROVE t \in Staff(e, c) <=> t \in Staff(d, c)
      <3>1. e.posts = d.posts
        BY DEF NodesOnly
      <3> QED
        BY <2>4, <3>1, StaffMember
    <2>6. Staff(e, c) = Staff(d, c)
      BY <2>5
    <2> QED
      BY <2>1, <2>2, <2>6 DEF StaffFollows
  <1> QED
    BY <1>4, <1>6, <1>7, <1>8 DEF Follows

(* Reference data: the upsert of a node by its code. *)
LEMMA UpsertPut ==
  ASSUME NEW d, DbTyped(d), NEW l \in Levels, NEW c \in NodeCodes, NEW up \in Nat,
         l # Faculty => \E m \in d.nodes : m.id = up /\ m.level + 1 = l,
         NEW f, f = UpsertNode(d, l, c, up)
  PROVE  \E z : /\ NodePut(d, f, z) /\ NodesOnly(d, f) /\ f.graph = d.graph
                /\ z.level = l /\ z.code = c /\ z.up = up
                /\ \A n \in d.nodes : n.id = z.id => n.code = c
  <1>1. /\ d.next \in Nat \ {0} /\ d.nodes \subseteq Node
        /\ \A n \in d.nodes : n.id \in Nat \ {0} /\ n.id < d.next
        /\ \A m, n \in d.nodes : m.id = n.id => m = n
        /\ \A m, n \in d.nodes : m.level = n.level /\ m.code = n.code => m = n
    BY DEF DbTyped, NodesTyped, Node
  <1>2. CASE NodeAt(d, l, c) = {}
    <2>1. PICK z : z = [id |-> d.next, level |-> l, code |-> c, up |-> up]
      OBVIOUS
    <2>2. z \in Node /\ z.id = d.next /\ z.level = l /\ z.code = c /\ z.up = up
      BY <1>1, <2>1 DEF Node
    <2>3. PICK x : x = d.nodes \cup {z}
      OBVIOUS
    <2>4. f = [d EXCEPT !.nodes = x, !.next = d.next + 1]
      BY <1>2, <2>1, <2>3 DEF UpsertNode, DbTyped, DbShape
    <2>5. NodesOnly(d, f) /\ f.graph = d.graph /\ f.nodes = x /\ f.next = d.next + 1
      BY <2>4 DEF DbTyped, DbShape, NodesOnly
    <2>6. z.id < f.next /\ \A n \in d.nodes : n.id # z.id
      <3>1. \A n \in d.nodes : n.id # d.next
        BY <1>1
      <3>2. d.next < d.next + 1
        BY <1>1
      <3> QED
        BY <2>2, <2>5, <3>1, <3>2
    <2>7. \A n \in d.nodes : ~(n.level = l /\ n.code = c)
      BY <1>2 DEF NodeAt
    <2>8. NodePut(d, f, z)
      BY <2>2, <2>3, <2>5, <2>6, <2>7 DEF NodePut
    <2> QED
      BY <2>2, <2>5, <2>6, <2>8
  <1>3. CASE NodeAt(d, l, c) # {}
    <2>1. PICK o \in d.nodes : o.level = l /\ o.code = c
      BY <1>3 DEF NodeAt
    <2>2. PICK z : z = [o EXCEPT !.up = up]
      OBVIOUS
    <2>3. z \in Node /\ z.id = o.id /\ z.level = l /\ z.code = c /\ z.up = up
      BY <1>1, <2>1, <2>2 DEF Node
    <2>4. \A n : n \in NodeAt(d, l, c) <=> n = o
      BY <1>1, <2>1 DEF NodeAt
    <2>5. PICK x : x = {IF n \in NodeAt(d, l, c) THEN [n EXCEPT !.up = up] ELSE n : n \in d.nodes}
      OBVIOUS
    <2>6. f = [d EXCEPT !.nodes = x]
      BY <1>3, <2>5 DEF UpsertNode
    <2>7. NodesOnly(d, f) /\ f.graph = d.graph /\ f.nodes = x /\ f.next = d.next
      BY <2>6 DEF DbTyped, DbShape, NodesOnly
    <2>8. \A n : n \in x <=> n = z \/ (n \in d.nodes /\ n # o)
      <3>1. x = {IF n = o THEN z ELSE n : n \in d.nodes}
        BY <2>2, <2>4, <2>5
      <3> QED
        BY <2>1, <3>1
    <2>9. z.id < f.next
      BY <1>1, <2>1, <2>3, <2>7
    <2>10. NodePut(d, f, z)
      BY <1>1, <2>1, <2>3, <2>7, <2>8, <2>9 DEF NodePut
    <2>11. \A n \in d.nodes : n.id = z.id => n.code = c
      BY <1>1, <2>1, <2>3
    <2> QED
      BY <2>3, <2>7, <2>10, <2>11
  <1> QED
    BY <1>2, <1>3

(* The codes of requests are codes of nodes. *)
LEMMA CodesAreNodeCodes == Codes \subseteq NodeCodes
  BY DEF NodeCodes

(* The upsert of a faculty, which has no parent. *)
LEMMA SyncFacultyStep ==
  ASSUME UniversityInv, NEW c \in Codes, SyncFaculty(c)
  PROVE  UniversityInv'
  <1>1. uni' = UpsertNode(uni, Faculty, c, 0) /\ drift' = drift
    BY DEF SyncFaculty, Save, Keeps
  <1>2. DbTyped(uni) /\ Follows(uni, drift) /\ Faculty \in Levels /\ c \in NodeCodes
    BY LevelsApart, CodesAreNodeCodes DEF UniversityInv
  <1>3. PICK z : /\ NodePut(uni, uni', z) /\ NodesOnly(uni, uni') /\ uni'.graph = uni.graph
                 /\ z.level = Faculty /\ z.code = c /\ \A n \in uni.nodes : n.id = z.id => n.code = c
    BY <1>1, <1>2, UpsertPut
  <1> QED
    BY <1>1, <1>2, <1>3, NodeStep DEF UniversityInv

(* The administration creates a node without its relationship: its parent key is in drift. *)
LEMMA CreateEntityStep ==
  ASSUME UniversityInv, NEW l \in Levels, NEW c \in Codes, NEW up, CreateEntity(l, c, up)
  PROVE  UniversityInv'
  <1>1. /\ uni' = UpsertNode(uni, l, c, up) /\ drift' = drift \cup {Parent(l, c)}
        /\ IF l = Faculty THEN up = 0 ELSE up \in Ids(NodesOf(uni, l - 1))
    BY DEF CreateEntity, Save
  <1>2. DbTyped(uni) /\ Follows(uni, drift) /\ c \in NodeCodes /\ l \in Nat
    BY LevelsApart, CodesAreNodeCodes DEF UniversityInv
  <1>3. up \in Nat /\ (l # Faculty => \E m \in uni.nodes : m.id = up /\ m.level + 1 = l)
    <2>1. CASE l = Faculty
      BY <1>1, <2>1
    <2>2. CASE l # Faculty
      <3>1. PICK m \in uni.nodes : m.id = up /\ m.level = l - 1
        BY <1>1, <2>2 DEF Ids, NodesOf
      <3>2. m.id \in Nat
        BY <1>2 DEF DbTyped, NodesTyped, Node
      <3> QED
        BY <1>2, <3>1, <3>2
    <2> QED
      BY <2>1, <2>2
  <1>4. PICK z : /\ NodePut(uni, uni', z) /\ NodesOnly(uni, uni') /\ uni'.graph = uni.graph
                 /\ z.level = l /\ z.code = c /\ \A n \in uni.nodes : n.id = z.id => n.code = c
    BY <1>1, <1>2, <1>3, UpsertPut
  <1> QED
    BY <1>1, <1>2, <1>4, NodeStep DEF UniversityInv

(* The synchronization of a node rewrites its one parent relationship. *)
LEMMA SyncHierarchyNodeStep ==
  ASSUME UniversityInv, NEW l, NEW c \in Codes, NEW pc, SyncHierarchyNode(l, c, pc)
  PROVE  UniversityInv'
  <1>1. PICK up, f : up = IdOf(NodeAt(uni, l - 1, pc)) /\ f = UpsertNode(uni, l, c, up)
    OBVIOUS
  <1>2. /\ uni' = ReplaceFor(f, "parent", l, c, {<<"parent", l, c, pc>>}) /\ drift' = drift \ {Parent(l, c)}
        /\ NodeAt(uni, l - 1, pc) # {} /\ l \in {2, 4, 5}
    BY <1>1, LevelsApart DEF SyncHierarchyNode, Save, Upsertable
  <1>3. DbTyped(uni) /\ Follows(uni, drift) /\ c \in NodeCodes /\ l \in Levels /\ l \in Nat /\ l # Faculty
    BY <1>2, LevelsApart, CodesAreNodeCodes DEF UniversityInv
  <1>4. PICK m \in uni.nodes : m.id = up /\ m.level = l - 1 /\ m.code = pc
    <2>1. PICK m \in NodeAt(uni, l - 1, pc) : up = m.id
      BY <1>1, <1>2 DEF IdOf
    <2> QED
      BY <2>1 DEF NodeAt
  <1>5. NodesTyped(uni.nodes, uni.next) /\ m.level \in Nat /\ m.id \in Nat
    BY <1>3, LevelsApart DEF DbTyped, NodesTyped, Node
  <1>6. m.level + 1 = l /\ up \in Nat
    BY <1>3, <1>4, <1>5
  <1>7. PICK z : /\ NodePut(uni, f, z) /\ NodesOnly(uni, f) /\ f.graph = uni.graph
                 /\ z.level = l /\ z.code = c /\ z.up = up /\ \A n \in uni.nodes : n.id = z.id => n.code = c
    BY <1>1, <1>3, <1>4, <1>6, UpsertPut
  <1>8. PICK graph : graph = (f.graph \ OfObject(f, "parent", l, c)) \cup {<<"parent", l, c, pc>>}
    OBVIOUS
  <1>9. uni' = [f EXCEPT !.graph = graph]
    BY <1>2, <1>7, <1>8 DEF ReplaceFor, NodesOnly, DbShape
  <1>10. NodesOnly(uni, uni') /\ uni'.graph = graph /\ uni'.nodes = f.nodes /\ uni'.next = f.next
    BY <1>7, <1>9 DEF NodesOnly, DbShape
  <1>11. NodePut(uni, uni', z)
    BY <1>7, <1>10 DEF NodePut
  <1>12. \A t : t[1] # "parent" \/ t[2] # l \/ t[3] # c => (t \in graph <=> t \in uni.graph)
    BY <1>7, <1>8 DEF OfObject
  <1>13. ParentFollows(uni', z)
    <2>1. OfObject(uni', "parent", l, c) = {<<"parent", l, c, pc>>}
      BY <1>8, <1>10 DEF OfObject
    <2>2. CodeOf(uni', up) = pc
      <3>1. NodesTyped(uni'.nodes, uni'.next)
        BY <1>5, <1>11, NodesPut
      <3>2. m.id # z.id
        <4>1. m.id = z.id => m.level = z.level
          BY <1>5, <1>7 DEF NodePut, NodesTyped
        <4> QED
          BY <1>3, <1>4, <1>6, <1>7, <4>1
      <3>3. m \in uni'.nodes
        BY <1>11, <3>2 DEF NodePut
      <3> QED
        BY <1>4, <3>1, <3>3, CodeFound
    <2> QED
      BY <1>7, <2>1, <2>2 DEF ParentFollows
  <1> QED
    BY <1>2, <1>3, <1>7, <1>10, <1>11, <1>12, <1>13, NodeStep DEF UniversityInv

(* The administration changes the code or the parent of a node. *)
LEMMA UpdateEntityStep ==
  ASSUME UniversityInv, NEW n \in uni.nodes, NEW c \in Codes, NEW up, UpdateEntity(n, c, up)
  PROVE  UniversityInv'
  <1>1. /\ n.code = c \/ NodeAt(uni, n.level, c) = {}
        /\ IF n.level = Faculty THEN up = 0 ELSE up \in Ids(NodesOf(uni, n.level - 1))
        /\ uni' = [uni EXCEPT !.nodes = (@ \ {n}) \cup {[n EXCEPT !.code = c, !.up = up]}]
        /\ drift' = drift \cup Naming(n) \cup {Parent(n.level, c), StaffOf(c)} \cup (IF n.code = c THEN {} ELSE Touching(n))
    BY DEF UpdateEntity, Save
  <1>2. DbTyped(uni) /\ Follows(uni, drift) /\ c \in NodeCodes
    BY CodesAreNodeCodes DEF UniversityInv
  <1>3. NodesTyped(uni.nodes, uni.next) /\ n \in Node /\ n.level \in Nat
    BY <1>2, LevelsApart DEF DbTyped, NodesTyped, Node
  <1>4. up \in Nat /\ (n.level # Faculty => \E m \in uni.nodes : m.id = up /\ m.level + 1 = n.level)
    <2>1. CASE n.level = Faculty
      BY <1>1, <2>1
    <2>2. CASE n.level # Faculty
      <3>1. PICK m \in uni.nodes : m.id = up /\ m.level = n.level - 1
        BY <1>1, <2>2 DEF Ids, NodesOf
      <3>2. m.id \in Nat
        BY <1>3 DEF NodesTyped, Node
      <3> QED
        BY <1>3, <3>1, <3>2
    <2> QED
      BY <2>1, <2>2
  <1>5. PICK z : z = [n EXCEPT !.code = c, !.up = up]
    OBVIOUS
  <1>6. z \in Node /\ z.id = n.id /\ z.level = n.level /\ z.code = c /\ z.up = up
    BY <1>2, <1>3, <1>4, <1>5 DEF Node
  <1>7. PICK x : x = (uni.nodes \ {n}) \cup {z}
    OBVIOUS
  <1>8. uni' = [uni EXCEPT !.nodes = x]
    BY <1>1, <1>5, <1>7
  <1>9. NodesOnly(uni, uni') /\ uni'.graph = uni.graph /\ uni'.nodes = x /\ uni'.next = uni.next
    BY <1>2, <1>8 DEF DbTyped, DbShape, NodesOnly
  <1>10. ASSUME NEW m \in uni.nodes, m # n PROVE m.id # n.id /\ ~(m.level = n.level /\ m.code = c)
    BY <1>1, <1>3, <1>10 DEF NodesTyped, NodeAt
  <1>11. NodePut(uni, uni', z)
    <2>1. z.id < uni.next
      BY <1>3, <1>6 DEF NodesTyped
    <2> QED
      BY <1>4, <1>6, <1>7, <1>9, <1>10, <2>1 DEF NodePut
  <1>12. drift \subseteq drift' /\ Naming(n) \subseteq drift' /\ Parent(z.level, z.code) \in drift' /\ StaffOf(z.code) \in drift'
    BY <1>1, <1>6
  <1>13. ASSUME NEW m \in uni.nodes, m.id = z.id, m.code # z.code
         PROVE  Named(uni, m, drift')
    <2>1. m = n /\ n.code # c
      BY <1>6, <1>10, <1>13
    <2>2. Touching(n) \subseteq drift'
      BY <1>1, <2>1
    <2>3. \A s \in uni.positions : s.group = n.id \/ n.id \in s.subs => Member(s.person) \in drift'
      BY <2>2 DEF Touching
    <2>4. /\ \A k \in uni.nodes : k.up = n.id /\ k.level = n.level + 1 => Parent(k.level, k.code) \in drift'
          /\ StaffOf(n.code) \in drift'
      BY <1>12 DEF Naming, Children
    <2> QED
      BY <2>1, <2>3, <2>4 DEF Named
  <1> QED
    BY <1>2, <1>9, <1>11, <1>12, <1>13, NodeStep DEF UniversityInv

(* The administration deletes a node: a group with its subgroups, above groups only a leaf. *)
LEMMA DeleteEntityStep ==
  ASSUME UniversityInv, NEW n \in uni.nodes, DeleteEntity(n)
  PROVE  UniversityInv'
  <1>1. PICK gone : gone = {n} \cup Children(uni, n)
    OBVIOUS
  <1> DEFINE Left(s) == [s EXCEPT !.stream = IF @ = n.id THEN 0 ELSE @, !.group = IF @ = n.id THEN 0 ELSE @,
                                  !.subs = @ \ Ids(gone)]
             LeftPost(t) == [t EXCEPT !.dept = IF @ = n.id THEN 0 ELSE @]
  <1>2. PICK positions, posts, teaching :
          /\ positions = {Left(s) : s \in uni.positions}
          /\ posts = {LeftPost(t) : t \in uni.posts}
          /\ teaching = {[t EXCEPT !.group = IF @ = n.id THEN 0 ELSE @] : t \in uni.teaching}
    OBVIOUS
  <1>3. /\ n.level >= Group \/ Children(uni, n) = {}
        /\ uni' = [uni EXCEPT !.nodes = @ \ gone, !.positions = positions, !.posts = posts, !.teaching = teaching]
        /\ drift' = drift \cup UNION {Naming(m) \cup Touching(m) : m \in gone}
    BY <1>1, <1>2 DEF DeleteEntity, Save
  <1>4. DbTyped(uni) /\ Follows(uni, drift)
    BY DEF UniversityInv
  <1>5. /\ NodesTyped(uni.nodes, uni.next) /\ PositionsTyped(uni.positions, uni.nodes) /\ PostsTyped(uni.posts, uni.nodes)
        /\ \A m \in uni.nodes : m.level \in 1..6 /\ m.id \in Nat /\ m.id # 0
        /\ \A k, m \in uni.nodes : k.id = m.id => k = m
    BY <1>4, LevelsApart DEF DbTyped, NodesTyped, Node
  <1>6. PICK nodes : nodes = uni.nodes \ gone
    OBVIOUS
  <1>7. /\ DbShape(uni') /\ uni'.nodes = nodes /\ uni'.positions = positions /\ uni'.posts = posts
        /\ uni'.persons = uni.persons /\ uni'.linked = uni.linked /\ uni'.graph = uni.graph /\ uni'.next = uni.next
    BY <1>3, <1>4, <1>6 DEF DbTyped, DbShape
  <1>8. ASSUME NEW m \in gone
        PROVE  /\ m \in uni.nodes
               /\ m = n \/ (n.level = Group /\ m.level = Subgroup /\ m.up = n.id)
    <2>1. CASE m = n
      BY <2>1
    <2>2. CASE m \in Children(uni, n)
      <3>1. m \in uni.nodes /\ m.up = n.id /\ m.level = n.level + 1 /\ n.level >= Group
        BY <1>3, <2>2 DEF Children
      <3>2. n.level \in 1..6 /\ m.level \in 1..6
        BY <1>5, <3>1
      <3> QED
        BY <3>1, <3>2, LevelsApart
    <2> QED
      BY <1>1, <2>1, <2>2
  <1>9. ASSUME NEW m \in uni.nodes, m \notin gone, m.level # Faculty
        PROVE  \E k \in nodes : k.id = m.up /\ k.level + 1 = m.level
    <2>1. PICK k \in uni.nodes : k.id = m.up /\ k.level + 1 = m.level
      BY <1>5, <1>9 DEF NodesTyped
    <2>2. k.level \in 1..6 /\ m.level \in 1..6
      BY <1>5
    <2>3. CASE k = n
      <3>1. m.level = n.level + 1
        BY <2>1, <2>2, <2>3
      <3> QED
        BY <1>1, <1>9, <2>1, <2>3, <3>1 DEF Children
    <2>4. CASE k \in gone /\ k # n
      <3>1. k.level = Subgroup
        BY <1>8, <2>4
      <3> QED
        BY <2>1, <2>2, <3>1, LevelsApart
    <2> QED
      BY <1>1, <1>6, <2>1, <2>3, <2>4
  <1>10. NodesTyped(nodes, uni.next)
    BY <1>5, <1>6, <1>9 DEF NodesTyped
  <1>11. ASSUME NEW s \in uni.positions
         PROVE  /\ Left(s) \in Position /\ Left(s).person = s.person /\ Left(s).active = s.active
                /\ Left(s).group = (IF s.group = n.id THEN 0 ELSE s.group) /\ Left(s).subs = s.subs \ Ids(gone)
    <2>1. s \in Position
      BY <1>5 DEF PositionsTyped
    <2> QED
      BY <2>1 DEF Position
  <1>12. ASSUME NEW t \in uni.posts
         PROVE  /\ LeftPost(t) \in Post /\ LeftPost(t).person = t.person /\ LeftPost(t).active = t.active
                /\ LeftPost(t).dept = (IF t.dept = n.id THEN 0 ELSE t.dept)
    <2>1. t \in Post
      BY <1>5 DEF PostsTyped
    <2> QED
      BY <2>1 DEF Post
  <1> HIDE DEF Left, LeftPost
  <1>13. ASSUME NEW l, NEW i \in IdsAt(uni.nodes, l), i # n.id, l # Subgroup
         PROVE  i \in IdsAt(nodes, l)
    <2>1. PICK m \in uni.nodes : m.level = l /\ i = m.id
      BY DEF IdsAt
    <2>2. m \notin gone
      BY <1>8, <1>13, <2>1
    <2> QED
      BY <1>6, <2>1, <2>2 DEF IdsAt
  <1>14. ASSUME NEW i \in IdsAt(uni.nodes, Subgroup), i \notin Ids(gone)
         PROVE  i \in IdsAt(nodes, Subgroup)
    BY <1>6, <1>14 DEF IdsAt, Ids
  <1>15. PositionsTyped(positions, nodes)
    <2> SUFFICES ASSUME NEW y \in positions
                 PROVE  y \in Position /\ y.group \in IdsAt(nodes, Group) \cup {0} /\ y.subs \subseteq IdsAt(nodes, Subgroup)
      BY DEF PositionsTyped
    <2>1. PICK s \in uni.positions : y = Left(s)
      BY <1>2
    <2>2. y \in Position /\ y.group = (IF s.group = n.id THEN 0 ELSE s.group) /\ y.subs = s.subs \ Ids(gone)
      BY <1>11, <2>1
    <2>3. s.group \in IdsAt(uni.nodes, Group) \cup {0} /\ s.subs \subseteq IdsAt(uni.nodes, Subgroup)
      BY <1>5 DEF PositionsTyped
    <2> QED
      BY <1>13, <1>14, <2>2, <2>3, LevelsApart
  <1>16. PostsTyped(posts, nodes)
    <2> SUFFICES ASSUME NEW y \in posts
                 PROVE  y \in Post /\ y.dept \in IdsAt(nodes, Department) \cup {0}
      BY DEF PostsTyped
    <2>1. PICK t \in uni.posts : y = LeftPost(t)
      BY <1>2
    <2>2. y \in Post /\ y.dept = (IF t.dept = n.id THEN 0 ELSE t.dept)
      BY <1>12, <2>1
    <2>3. t.dept \in IdsAt(uni.nodes, Department) \cup {0}
      BY <1>5 DEF PostsTyped
    <2> QED
      BY <1>13, <2>2, <2>3, LevelsApart
  <1>17. DbTyped(uni')
    BY <1>4, <1>7, <1>10, <1>15, <1>16 DEF DbTyped
  <1>18. ASSUME NEW m \in gone
         PROVE  Named(uni, m, drift') /\ StaffOf(m.code) \in drift'
    <2>1. Naming(m) \subseteq drift' /\ Touching(m) \subseteq drift'
      BY <1>3
    <2> QED
      BY <2>1 DEF Named, Naming, Touching, Children
  <1>19. ASSUME NEW m \in nodes PROVE CodeOf(uni', m.id) = m.code /\ CodeOf(uni, m.id) = m.code
    <2>1. m \in uni.nodes /\ m \in uni'.nodes /\ NodesTyped(uni'.nodes, uni'.next)
      BY <1>6, <1>7, <1>10
    <2> QED
      BY <1>5, <2>1, CodeFound
  <1>20. drift \subseteq drift'
    BY <1>3
  <1>21. ASSUME NEW p \in Students \ {Anonymous}, Member(p) \notin drift'
         PROVE  MemberFollows(uni', p)
    <2>1. MemberFollows(uni, p)
      BY <1>4, <1>20, <1>21 DEF Follows
    <2>2. ASSUME NEW s \in uni.positions, s.person = p
          PROVE  /\ s.group # n.id /\ s.subs \ Ids(gone) = s.subs
                 /\ s.group # 0 => CodeOf(uni', s.group) = CodeOf(uni, s.group)
                 /\ \A i \in s.subs : CodeOf(uni', i) = CodeOf(uni, i)
      <3>1. \A m \in gone : s.group # m.id /\ m.id \notin s.subs
        BY <1>18, <1>21, <2>2 DEF Named
      <3>2. n \in gone
        BY <1>1
      <3>3. s.group # n.id /\ s.subs \ Ids(gone) = s.subs
        BY <3>1, <3>2 DEF Ids
      <3>4. /\ s.group # 0 => \E m \in uni.nodes : s.group = m.id
            /\ \A i \in s.subs : \E m \in uni.nodes : i = m.id
        BY <1>5 DEF PositionsTyped, IdsAt
      <3> QED
        BY <1>6, <1>19, <3>1, <3>3, <3>4
    <2>3. ASSUME NEW t PROVE t \in Members(uni', p) <=> t \in Members(uni, p)
      <3>1. ASSUME NEW y \in positions, y.person = p
            PROVE  \E s \in uni.positions : s.person = p /\ s.active = y.active /\ s.group = y.group /\ s.subs = y.subs
        <4>1. PICK s \in uni.positions : y = Left(s)
          BY <1>2
        <4>2. /\ s.person = p /\ y.active = s.active
              /\ y.group = (IF s.group = n.id THEN 0 ELSE s.group) /\ y.subs = s.subs \ Ids(gone)
          BY <1>11, <3>1, <4>1
        <4> QED
          BY <2>2, <4>2
      <3>2. ASSUME NEW s \in uni.positions, s.person = p
            PROVE  \E y \in positions : y.person = p /\ s.active = y.active /\ s.group = y.group /\ s.subs = y.subs
        <4>1. PICK y : y = Left(s)
          OBVIOUS
        <4>2. y \in positions
          BY <1>2, <4>1
        <4>3. /\ y.person = p /\ y.active = s.active
              /\ y.group = (IF s.group = n.id THEN 0 ELSE s.group) /\ y.subs = s.subs \ Ids(gone)
          BY <1>11, <3>2, <4>1
        <4> QED
          BY <2>2, <3>2, <4>2, <4>3
      <3>3. t \in Members(uni', p) <=> \E y \in positions :
              /\ y.person = p /\ y.active
              /\ \/ y.group # 0 /\ t = <<"member", Group, CodeOf(uni', y.group), p>>
                 \/ \E i \in y.subs : t = <<"member", Subgroup, CodeOf(uni', i), p>>
        BY <1>7, MemberOf
      <3>4. t \in Members(uni, p) <=> \E s \in uni.positions :
              /\ s.person = p /\ s.active
              /\ \/ s.group # 0 /\ t = <<"member", Group, CodeOf(uni', s.group), p>>
                 \/ \E i \in s.subs : t = <<"member", Subgroup, CodeOf(uni', i), p>>
        BY <2>2, MemberOf
      <3> QED
        BY <3>1, <3>2, <3>3, <3>4
    <2>4. Members(uni', p) = Members(uni, p)
      BY <2>3
    <2>5. OfMember(uni', p) = OfMember(uni, p)
      BY <1>7 DEF OfMember
    <2> QED
      BY <2>1, <2>4, <2>5 DEF MemberFollows
  <1>22. ASSUME NEW m \in uni'.nodes, m.level # Faculty, Parent(m.level, m.code) \notin drift'
         PROVE  ParentFollows(uni', m)
    <2>1. m \in uni.nodes /\ m \notin gone
      BY <1>6, <1>7, <1>22
    <2>2. ParentFollows(uni, m)
      BY <1>4, <1>20, <1>22, <2>1 DEF Follows
    <2>3. PICK k \in nodes : k.id = m.up
      BY <1>9, <1>22, <2>1
    <2>4. CodeOf(uni', m.up) = CodeOf(uni, m.up)
      BY <1>19, <2>3
    <2>5. OfObject(uni', "parent", m.level, m.code) = OfObject(uni, "parent", m.level, m.code)
      BY <1>7 DEF OfObject
    <2> QED
      BY <2>2, <2>4, <2>5 DEF ParentFollows
  <1>23. ASSUME NEW c \in NodeCodes, StaffOf(c) \notin drift'
         PROVE  StaffFollows(uni', c)
    <2>1. StaffFollows(uni, c)
      BY <1>4, <1>20, <1>23 DEF Follows
    <2>2. OfObject(uni', "staff", Department, c) = OfObject(uni, "staff", Department, c)
      BY <1>7 DEF OfObject
    <2>3. n \in gone
      BY <1>1
    <2>4. ASSUME NEW t \in Staff(uni', c) PROVE t \in Staff(uni, c)
      <3>1. PICK y \in posts : /\ y.active /\ y.person # Anonymous
                               /\ \E k \in nodes : k.level = Department /\ k.code = c /\ k.id = y.dept
                               /\ t = <<"staff", Department, c, y.person>>
        BY <1>7, StaffMember
      <3>2. PICK k \in nodes : k.level = Department /\ k.code = c /\ k.id = y.dept
        BY <3>1
      <3>3. PICK x \in uni.posts : y = LeftPost(x)
        BY <1>2
      <3>4. y.person = x.person /\ y.active = x.active /\ y.dept = (IF x.dept = n.id THEN 0 ELSE x.dept)
        BY <1>12, <3>3
      <3>5. k \in uni.nodes /\ k.id # 0
        BY <1>5, <1>6
      <3>6. x.dept = k.id
        BY <3>2, <3>4, <3>5
      <3>7. /\ x.active /\ x.person # Anonymous /\ t = <<"staff", Department, c, x.person>>
            /\ k.level = Department /\ k.code = c /\ k.id = x.dept
        BY <3>1, <3>2, <3>4, <3>6
      <3> QED
        BY <3>5, <3>7, StaffMember
    <2>5. ASSUME NEW t \in Staff(uni, c) PROVE t \in Staff(uni', c)
      <3>1. PICK x \in uni.posts : /\ x.active /\ x.person # Anonymous
                                   /\ \E k \in uni.nodes : k.level = Department /\ k.code = c /\ k.id = x.dept
                                   /\ t = <<"staff", Department, c, x.person>>
        BY StaffMember
      <3>2. PICK k \in uni.nodes : k.level = Department /\ k.code = c /\ k.id = x.dept
        BY <3>1
      <3>3. k \notin gone
        BY <1>18, <1>23, <3>2
      <3>4. k \in nodes /\ k.id # n.id
        BY <1>5, <1>6, <2>3, <3>3
      <3>5. PICK y : y = LeftPost(x)
        OBVIOUS
      <3>6. y \in posts
        BY <1>2, <3>5
      <3>7. y.person = x.person /\ y.active = x.active /\ y.dept = x.dept
        BY <1>12, <3>2, <3>4, <3>5
      <3>8. y \in uni'.posts /\ k \in uni'.nodes
        BY <1>7, <3>4, <3>6
      <3>9. /\ y.active /\ y.person # Anonymous /\ t = <<"staff", Department, c, y.person>>
            /\ k.level = Department /\ k.code = c /\ k.id = y.dept
        BY <3>1, <3>2, <3>7
      <3> QED
        BY <3>8, <3>9, StaffMember
    <2>6. Staff(uni', c) = Staff(uni, c)
      BY <2>4, <2>5
    <2> QED
      BY <2>1, <2>2, <2>6 DEF StaffFollows
  <1>24. Follows(uni', drift')
    BY <1>21, <1>22, <1>23 DEF Follows
  <1> QED
    BY <1>17, <1>24 DEF UniversityInv

\* Nothing that memberships, parents and staff depend on differs between d and e.
Plain(d, e) ==
    /\ DbShape(e) /\ e.nodes = d.nodes /\ e.positions = d.positions /\ e.posts = d.posts
    /\ PersonsTyped(e.persons, e.linked)
    /\ e.next = d.next \/ e.next = d.next + 1
    /\ \A t : t[1] \in {"member", "parent", "staff"} => (t \in e.graph <=> t \in d.graph)

(* A write that memberships, parents and staff do not depend on keeps the invariant. *)
LEMMA PlainStep ==
  ASSUME UniversityInv, Plain(uni, uni'), drift' = drift
  PROVE  UniversityInv'
  <1>1. DbTyped(uni) /\ Follows(uni, drift)
    BY DEF UniversityInv
  <1>2. DbTyped(uni')
    BY <1>1, NextLater DEF Plain, DbTyped
  <1>3. \A i : CodeOf(uni', i) = CodeOf(uni, i)
    BY DEF Plain, CodeOf
  <1>4. ASSUME NEW p \in Students \ {Anonymous}, Member(p) \notin drift
        PROVE  MemberFollows(uni', p)
    <2>1. Members(uni', p) = Members(uni, p)
      BY <1>3, SameMembers DEF Plain
    <2>2. OfMember(uni', p) = OfMember(uni, p)
      BY DEF OfMember, Plain
    <2> QED
      BY <1>1, <1>4, <2>1, <2>2 DEF Follows, MemberFollows
  <1>5. ASSUME NEW n \in uni'.nodes, n.level # Faculty, Parent(n.level, n.code) \notin drift
        PROVE  ParentFollows(uni', n)
    <2>1. OfObject(uni', "parent", n.level, n.code) = OfObject(uni, "parent", n.level, n.code)
      BY DEF OfObject, Plain
    <2>2. ParentFollows(uni, n)
      BY <1>1, <1>5 DEF Follows, Plain
    <2> QED
      BY <1>3, <2>1, <2>2 DEF ParentFollows
  <1>6. ASSUME NEW c \in NodeCodes, StaffOf(c) \notin drift
        PROVE  StaffFollows(uni', c)
    <2>1. OfObject(uni', "staff", Department, c) = OfObject(uni, "staff", Department, c)
      BY DEF OfObject, Plain
    <2>2. Staff(uni', c) = Staff(uni, c)
      BY DEF Staff, NodeAt, Plain
    <2> QED
      BY <1>1, <1>6, <2>1, <2>2 DEF Follows, StaffFollows
  <1> QED
    BY <1>2, <1>4, <1>5, <1>6 DEF UniversityInv, Follows

(* A step that leaves tables and drift alone keeps the invariant. *)
LEMMA StutterStep ==
  ASSUME UniversityInv, uni' = uni, drift' = drift
  PROVE  UniversityInv'
  BY DEF UniversityInv

(* Persons, courses, semesters, teaching and appointments are no memberships, parents or staff. *)
LEMMA PersonStep ==
  ASSUME UniversityInv, NEW p \in Persons, NEW r, uni' = UpsertPerson(uni, p, r), drift' = drift
  PROVE  UniversityInv'
  <1>1. PICK P : P = {}
    OBVIOUS
  <1>2. /\ DbTyped(uni') /\ OnlyPersons(uni, uni', P) /\ uni'.graph = uni.graph /\ uni'.positions = uni.positions
        /\ uni'.next = uni.next
    BY UpsertPersonDb DEF UniversityInv
  <1> QED
    BY <1>2, PlainStep DEF Plain, DbTyped, OnlyPersons

\* e differs from d in appointments, references, teaching, the graph and the counter of ids at most.
TablesOnly(d, e) ==
    /\ DbShape(e) /\ e.nodes = d.nodes /\ e.positions = d.positions /\ e.posts = d.posts
    /\ e.persons = d.persons /\ e.linked = d.linked
    /\ e.next = d.next \/ e.next = d.next + 1

(* The tables of appointments, references and teaching are among those. *)
LEMMA TablesStep ==
  ASSUME UniversityInv, TablesOnly(uni, uni'), drift' = drift,
         \A t : t[1] \in {"member", "parent", "staff"} => (t \in uni'.graph <=> t \in uni.graph)
  PROVE  UniversityInv'
  <1>1. PersonsTyped(uni.persons, uni.linked)
    BY DEF UniversityInv, DbTyped
  <1>2. Plain(uni, uni')
    BY <1>1 DEF TablesOnly, Plain
  <1> QED
    BY <1>2, PlainStep

(* The upsert of a course or semester. *)
LEMMA UpsertRefStep ==
  ASSUME UniversityInv, NEW k, NEW c, uni' = UpsertRef(uni, k, c), drift' = drift
  PROVE  UniversityInv'
  <1>0. DbShape(uni)
    BY DEF UniversityInv, DbTyped
  <1>1. CASE uni' = uni
    BY <1>1, StutterStep
  <1>2. CASE uni' # uni
    <2>1. PICK x : uni' = [uni EXCEPT !.catalog = x, !.next = @ + 1]
      BY <1>2 DEF UpsertRef
    <2>2. TablesOnly(uni, uni') /\ uni'.graph = uni.graph
      BY <1>0, <2>1 DEF DbShape, TablesOnly
    <2> QED
      BY <2>2, TablesStep
  <1> QED
    BY <1>1, <1>2

(* Courses and semesters in the administration. *)
LEMMA RefStep ==
  ASSUME UniversityInv, NEW k, RefOf(k)
  PROVE  UniversityInv'
  <1>0. DbShape(uni)
    BY DEF UniversityInv, DbTyped
  <1>1. ASSUME NEW c, CreateRef(k, c) PROVE UniversityInv'
    BY <1>1, UpsertRefStep DEF CreateRef, Save, Keeps
  <1>2. ASSUME NEW r, NEW c, UpdateRef(r, c) PROVE UniversityInv'
    <2>1. PICK x : uni' = [uni EXCEPT !.catalog = x] /\ drift' = drift
      BY <1>2 DEF UpdateRef, Save, Keeps
    <2>2. TablesOnly(uni, uni') /\ uni'.graph = uni.graph
      BY <1>0, <2>1 DEF DbShape, TablesOnly
    <2> QED
      BY <2>1, <2>2, TablesStep
  <1>3. ASSUME NEW r, DeleteRef(r) PROVE UniversityInv'
    <2>1. PICK x, y : uni' = [uni EXCEPT !.catalog = x, !.teaching = y] /\ drift' = drift
      BY <1>3 DEF DeleteRef, Save, Keeps
    <2>2. TablesOnly(uni, uni') /\ uni'.graph = uni.graph
      BY <1>0, <2>1 DEF DbShape, TablesOnly
    <2> QED
      BY <2>1, <2>2, TablesStep
  <1> QED
    BY <1>1, <1>2, <1>3 DEF RefOf

(* A teaching assignment gives its teacher the relation teacher only. *)
LEMMA SyncTeachingAssignmentStep ==
  ASSUME UniversityInv, NEW p, NEW c, NEW sem, NEW gc, SyncTeachingAssignment(p, c, sem, gc)
  PROVE  UniversityInv'
  <1>0. DbShape(uni)
    BY DEF UniversityInv, DbTyped
  <1>1. PICK x : uni' = Touch([uni EXCEPT !.teaching = x], {<<"teacher", Group, gc, p>>}) /\ drift' = drift
    BY DEF SyncTeachingAssignment, Save, Keeps
  <1>2. PICK graph : graph = uni.graph \cup {<<"teacher", Group, gc, p>>}
    OBVIOUS
  <1>3. TablesOnly(uni, uni') /\ uni'.graph = graph
    BY <1>0, <1>1, <1>2 DEF Touch, DbShape, TablesOnly
  <1>4. \A t : t[1] \in {"member", "parent", "staff"} => (t \in uni'.graph <=> t \in uni.graph)
    BY <1>2, <1>3
  <1> QED
    BY <1>1, <1>3, <1>4, TablesStep

(* The relationship of an appointment is none of member, parent and staff. *)
LEMMA AppointmentsApart ==
  ASSUME NEW p, NEW k \in Kinds, NEW l, NEW c
  PROVE  AppointmentTuple(p, k, l, c)[1] \notin {"member", "parent", "staff"}
  <1>1. k \in DOMAIN AppointmentRelation
    BY UniversityAssumption
  <1>2. AppointmentRelation[k] \in {"dean", "head", "director", "curator"}
    BY <1>1 DEF AppointmentRelation
  <1>3. PICK w : w = IF l = 0 THEN "main" ELSE c
    OBVIOUS
  <1>4. AppointmentTuple(p, k, l, c) = <<"curator", NationalityCategory, "foreign", p>>
          \/ AppointmentTuple(p, k, l, c) = <<AppointmentRelation[k], l, w, p>>
    BY <1>3 DEF AppointmentTuple
  <1> QED
    BY <1>2, <1>4

(* The synchronization of an appointment. *)
LEMMA SyncAdminAppointmentStep ==
  ASSUME UniversityInv, NEW p, NEW k \in Kinds, NEW l, NEW c, SyncAdminAppointment(p, k, l, c)
  PROVE  UniversityInv'
  <1>0. DbShape(uni)
    BY DEF UniversityInv, DbTyped
  <1>1. PICK a, u : u = AppointmentTuple(p, k, l, c)
                    /\ uni' = Touch([uni EXCEPT !.appointments = a, !.next = @ + 1], {u}) /\ drift' = drift
    BY DEF SyncAdminAppointment, Save, Keeps
  <1>2. PICK graph : graph = uni.graph \cup {u}
    OBVIOUS
  <1>3. TablesOnly(uni, uni') /\ uni'.graph = graph
    BY <1>0, <1>1, <1>2 DEF Touch, DbShape, TablesOnly
  <1>4. \A t : t[1] \in {"member", "parent", "staff"} => (t \in graph <=> t \in uni.graph)
    BY <1>1, <1>2, AppointmentsApart
  <1> QED
    BY <1>1, <1>3, <1>4, TablesStep

(* A change of appointments alone. *)
LEMMA AppointmentsStep ==
  ASSUME UniversityInv, NEW a, NEW y, y = uni.next \/ y = uni.next + 1,
         uni' = [uni EXCEPT !.appointments = a, !.next = y], drift' = drift
  PROVE  UniversityInv'
  <1>1. TablesOnly(uni, uni') /\ uni'.graph = uni.graph
    BY DEF UniversityInv, DbTyped, DbShape, TablesOnly
  <1> QED
    BY <1>1, TablesStep

(* Appointments in the administration. *)
LEMMA AdminAppointmentStep ==
  ASSUME UniversityInv,
         \/ \E p, k, l, scope : HandleCreateAdminAppointment(p, k, l, scope)
         \/ \E a, scope, act : HandleUpdateAdminAppointment(a, scope, act)
         \/ \E a : HandleDeleteAdminAppointment(a)
  PROVE  UniversityInv'
  <1>1. drift' = drift /\ \E a : \/ uni' = [uni EXCEPT !.appointments = a, !.next = @ + 1]
                                \/ uni' = [uni EXCEPT !.appointments = a]
    BY DEF HandleCreateAdminAppointment, CreateAdminAppointment, HandleUpdateAdminAppointment, UpdateAdminAppointment,
           HandleDeleteAdminAppointment, DeleteAdminAppointment, Save, Keeps
  <1>2. PICK a : \/ uni' = [uni EXCEPT !.appointments = a, !.next = @ + 1]
                 \/ uni' = [uni EXCEPT !.appointments = a]
    BY <1>1
  <1>3. PICK y : (y = uni.next \/ y = uni.next + 1) /\ uni' = [uni EXCEPT !.appointments = a, !.next = y]
    <2>1. [uni EXCEPT !.appointments = a] = [uni EXCEPT !.appointments = a, !.next = uni.next]
      BY DEF UniversityInv, DbTyped, DbShape
    <2> QED
      BY <1>2, <2>1
  <1> QED
    BY <1>1, <1>3, AppointmentsStep

(* Initially the graph is what a first synchronization wrote. *)
SeedRow(n) ==
    /\ n.level \in 1..6 /\ n.up = n.level - 1
    /\ (n.id = n.level /\ n.code = "a") \/ (n.id = 7 /\ n.level = 5 /\ n.code = "b")

(* The rows of the seed: a chain of nodes and a second group. *)
LEMMA SeedRows ==
  /\ \A n \in SeedNodes : n \in Node /\ SeedRow(n)
  /\ \A l \in 1..6 : \E n \in SeedNodes : n.id = l /\ n.level = l /\ n.code = "a"
  <1>1. ASSUME NEW n \in SeedNodes PROVE n \in Node /\ SeedRow(n)
    <2>1. CASE n \in {[id |-> l, level |-> l, code |-> "a", up |-> l - 1] : l \in Levels}
      <3>1. PICK l \in 1..6 : n = [id |-> l, level |-> l, code |-> "a", up |-> l - 1]
        BY <2>1, LevelsApart
      <3>2. l - 1 \in Nat /\ l \in Nat \ {0}
        OBVIOUS
      <3> QED
        BY <3>1, <3>2, LevelsApart DEF SeedRow, Node, NodeCodes
    <2>2. CASE n = [id |-> 7, level |-> Group, code |-> "b", up |-> Stream]
      BY <2>2, LevelsApart DEF SeedRow, Node, NodeCodes
    <2> QED
      BY <2>1, <2>2 DEF SeedNodes
  <1>2. ASSUME NEW l \in 1..6 PROVE \E n \in SeedNodes : n.id = l /\ n.level = l /\ n.code = "a"
    <2>1. [id |-> l, level |-> l, code |-> "a", up |-> l - 1] \in SeedNodes
      BY LevelsApart DEF SeedNodes
    <2> QED
      BY <2>1
  <1> QED
    BY <1>1, <1>2

(* The seed is well formed. *)
LEMMA SeedTyped == NodesTyped(SeedNodes, 9)
  <1>1. ASSUME NEW n \in SeedNodes PROVE n.id < 9
    <2>1. n.level \in 1..6 /\ (n.id = n.level \/ n.id = 7)
      BY SeedRows DEF SeedRow
    <2> QED
      BY <2>1
  <1>2. ASSUME NEW m \in SeedNodes, NEW n \in SeedNodes PROVE m.id = n.id => m = n
    <2>1. m.id = n.id => m.level = n.level /\ m.code = n.code /\ m.up = n.up
      BY SeedRows DEF SeedRow
    <2> QED
      BY <2>1, SeedRows DEF Node
  <1>3. ASSUME NEW m \in SeedNodes, NEW n \in SeedNodes PROVE m.level = n.level /\ m.code = n.code => m = n
    BY SeedRows DEF SeedRow, Node
  <1>4. ASSUME NEW n \in SeedNodes, n.level # Faculty PROVE \E m \in SeedNodes : m.id = n.up /\ m.level + 1 = n.level
    <2>1. n.level \in 1..6 /\ n.up = n.level - 1 /\ n.level # 1
      BY <1>4, SeedRows, LevelsApart DEF SeedRow
    <2>2. PICK l \in 1..6 : l = n.level - 1 /\ l + 1 = n.level
      BY <2>1
    <2>3. PICK m \in SeedNodes : m.id = l /\ m.level = l
      BY SeedRows
    <2> QED
      BY <2>1, <2>2, <2>3
  <1> QED
    BY <1>1, <1>2, <1>3, <1>4, SeedRows DEF NodesTyped

(* After the first synchronization the graph says what the tables say. *)
LEMMA SeedFollows ==
  ASSUME NEW people \in SUBSET Persons, NEW d, d = Seed(people)
  PROVE  DbTyped(d) /\ Follows(d, {})
  <1> DEFINE at(p) == [id |-> 8, person |-> p, stream |-> Stream, group |-> Group, active |-> TRUE, subs |-> {Subgroup}]
             positions == {at(p) : p \in people}
             parents == {<<"parent", n.level, n.code, "a">> :
                           n \in SeedNodes \ NodeAt([nodes |-> SeedNodes], Faculty, "a")}
  <1>1. PICK b : /\ DbShape(b) /\ b.nodes = SeedNodes /\ b.next = 9 /\ b.persons = people /\ b.linked = people
                 /\ b.positions = positions /\ b.posts = {} /\ b.graph = parents
                 /\ d = Touch(b, UNION {Members(b, p) : p \in people})
    <2> DEFINE b == [nodes |-> SeedNodes, next |-> 9, persons |-> people, linked |-> people, positions |-> positions,
                     posts |-> {}, appointments |-> {},
                     catalog |-> {[id |-> 1, kind |-> "course", code |-> "a"], [id |-> 2, kind |-> "semester", code |-> "a"]},
                     teaching |-> {}, graph |-> parents]
    <2>1. d = Touch(b, UNION {Members(b, p) : p \in people})
      BY DEF Seed
    <2> QED
      BY <2>1 DEF DbShape
  <1>2. PICK T : T = UNION {Members(b, p) : p \in people}
    OBVIOUS
  <1>3. /\ DbShape(d) /\ d.nodes = SeedNodes /\ d.next = 9 /\ d.persons = people /\ d.linked = people
        /\ d.positions = positions /\ d.posts = {} /\ d.graph = parents \cup T
    BY <1>1, <1>2 DEF Touch, DbShape
  <1>4. ASSUME NEW s \in positions
        PROVE  s \in Position /\ s.person \in people /\ s.active /\ s.group = 5 /\ s.subs = {6}
    <2>1. PICK p \in people : s = [id |-> 8, person |-> p, stream |-> Stream, group |-> Group, active |-> TRUE, subs |-> {Subgroup}]
      OBVIOUS
    <2>2. s.person = p /\ s.active /\ s.group = 5 /\ s.subs = {6} /\ p \in Persons
      BY <2>1, LevelsApart
    <2>3. s \in Position
      BY <2>1, <2>2, LevelsApart DEF Position
    <2> QED
      BY <2>2, <2>3
  <1>5. 5 \in IdsAt(SeedNodes, Group) /\ 6 \in IdsAt(SeedNodes, Subgroup)
    BY SeedRows, LevelsApart DEF IdsAt
  <1>6. ASSUME NEW t \in parents PROVE t[1] = "parent"
    OBVIOUS
  <1>7. ASSUME NEW n \in SeedNodes
        PROVE  n.level # Faculty => {t \in parents : t[1] = "parent" /\ t[2] = n.level /\ t[3] = n.code} = {<<"parent", n.level, n.code, "a">>}
    <2> SUFFICES ASSUME n.level # Faculty
                 PROVE  {t \in parents : t[1] = "parent" /\ t[2] = n.level /\ t[3] = n.code} = {<<"parent", n.level, n.code, "a">>}
      OBVIOUS
    <2>1. n \notin NodeAt([nodes |-> SeedNodes], Faculty, "a")
      BY DEF NodeAt
    <2>2. <<"parent", n.level, n.code, "a">> \in parents
      BY <2>1
    <2>3. ASSUME NEW t \in parents, t[1] = "parent" /\ t[2] = n.level /\ t[3] = n.code
          PROVE  t = <<"parent", n.level, n.code, "a">>
      BY <2>3
    <2> QED
      BY <2>2, <2>3
  <1> HIDE DEF positions, parents
  <1>8. DbTyped(d)
    <2>1. PositionsTyped(positions, SeedNodes)
      BY <1>4, <1>5 DEF PositionsTyped
    <2>2. PersonsTyped(people, people) /\ PostsTyped({}, SeedNodes)
      BY DEF PersonsTyped, PostsTyped
    <2> QED
      BY <1>3, <2>1, <2>2, SeedTyped DEF DbTyped
  <1>9. ASSUME NEW t PROVE t \in T <=> \E p \in people : t \in Members(b, p)
    BY <1>2
  <1>10. \A p : Members(d, p) = Members(b, p)
    <2>1. \A i : CodeOf(d, i) = CodeOf(b, i)
      BY <1>1, <1>3 DEF CodeOf
    <2> QED
      BY <1>1, <1>3, <2>1, SameMembers
  <1>11. \A p : \A t \in Members(d, p) : t[1] = "member" /\ t[4] = p /\ p \in people
    BY <1>3, <1>4, MemberOf
  <1>12. ASSUME NEW p PROVE MemberFollows(d, p)
    <2>1. ASSUME NEW t PROVE t \in OfMember(d, p) <=> t \in Members(d, p)
      BY <1>3, <1>6, <1>9, <1>10, <1>11 DEF OfMember
    <2> QED
      BY <2>1 DEF MemberFollows
  <1>13. ASSUME NEW n \in SeedNodes, n.level # Faculty PROVE ParentFollows(d, n)
    <2>1. OfObject(d, "parent", n.level, n.code) = {<<"parent", n.level, n.code, "a">>}
      <3>1. \A t : t \in d.graph /\ t[1] = "parent" <=> t \in parents /\ t[1] = "parent"
        BY <1>3, <1>9, <1>10, <1>11
      <3>2. OfObject(d, "parent", n.level, n.code) = {t \in parents : t[1] = "parent" /\ t[2] = n.level /\ t[3] = n.code}
        BY <3>1 DEF OfObject
      <3> QED
        BY <1>7, <1>13, <3>2
    <2>2. CodeOf(d, n.up) = "a"
      <3>1. n.level \in 1..6 /\ n.up = n.level - 1 /\ n.level # 1
        BY <1>13, SeedRows, LevelsApart DEF SeedRow
      <3>2. n.up \in 1..6
        BY <3>1
      <3>3. PICK m \in SeedNodes : m.id = n.up /\ m.code = "a"
        BY <3>2, SeedRows
      <3> QED
        BY <1>3, <3>3, SeedTyped, CodeFound
    <2> QED
      BY <2>1, <2>2 DEF ParentFollows
  <1>14. ASSUME NEW c PROVE StaffFollows(d, c)
    <2>1. ASSUME NEW t PROVE t \notin OfObject(d, "staff", Department, c) /\ t \notin Staff(d, c)
      BY <1>3, <1>6, <1>9, <1>10, <1>11, StaffMember DEF OfObject
    <2> QED
      BY <2>1 DEF StaffFollows
  <1> QED
    BY <1>3, <1>8, <1>12, <1>13, <1>14 DEF Follows

(* Both initial states satisfy the invariant. *)
LEMMA UniversityStarts ==
  ASSUME UniversityInit
  PROVE  UniversityInv
  <1>1. PICK people : uni = Seed(people) /\ people \in SUBSET Persons /\ drift = {}
    <2>1. (CHOOSE p \in Students : TRUE) \in Students
      BY UniversityAssumption
    <2> QED
      BY <2>1 DEF UniversityInit, Persons
  <1> QED
    BY <1>1, SeedFollows DEF UniversityInv

(* Of the keys that are not in drift the graph says what the tables say. *)
LEMMA InvFollows ==
  ASSUME UniversityInv
  PROVE  GraphFollowsTables
  <1>1. /\ DbTyped(uni) /\ Follows(uni, drift) /\ NodesTyped(uni.nodes, uni.next)
        /\ PositionsTyped(uni.positions, uni.nodes) /\ PersonsTyped(uni.persons, uni.linked)
    BY DEF UniversityInv, DbTyped
  <1>2. ASSUME NEW p \in Followed(uni.persons) PROVE OfMember(uni, p) = Members(uni, p)
    BY <1>1 DEF Followed, PersonsTyped, Persons, Follows, MemberFollows
  <1>3. ASSUME NEW p \in Followed(uni.linked), NEW n \in uni.nodes,
               NEW t, t = <<"member", n.level, n.code, p>>
        PROVE  t \in uni.graph <=> t \in Members(uni, p)
    <2>1. p \in Followed(uni.persons)
      BY <1>1 DEF Followed, PersonsTyped
    <2>2. t \in uni.graph <=> t \in OfMember(uni, p)
      BY <1>3 DEF OfMember
    <2> QED
      BY <1>2, <2>1, <2>2
  <1>4. ASSUME NEW p \in Followed(uni.linked), NEW n \in NodesOf(uni, Group)
        PROVE  p \in ResolveStudentUsers("group", n.id) <=> <<"member", n.level, n.code, p>> \in uni.graph
    <2>1. n \in uni.nodes /\ n.level = Group /\ n.id # 0 /\ CodeOf(uni, n.id) = n.code /\ p \in uni.linked
      BY <1>1, CodeFound DEF NodesOf, NodesTyped, Node, Followed
    <2>2. p \in ResolveStudentUsers("group", n.id)
            <=> \E s \in uni.positions : s.person = p /\ s.active /\ s.group = n.id
      BY <2>1 DEF ResolveStudentUsers, QueryForScope
    <2>3. ASSUME NEW s \in uni.positions, s.person = p, s.active, s.group = n.id
          PROVE  <<"member", n.level, n.code, p>> \in Members(uni, p)
      BY <2>1, <2>3, MemberOf
    <2>4. ASSUME <<"member", n.level, n.code, p>> \in Members(uni, p)
          PROVE  \E s \in uni.positions : s.person = p /\ s.active /\ s.group = n.id
      <3>1. PICK s \in uni.positions : s.person = p /\ s.active /\ s.group # 0 /\ CodeOf(uni, s.group) = n.code
        BY <2>1, <2>4, MemberOf, LevelsApart
      <3>2. PICK m \in uni.nodes : m.level = Group /\ m.id = s.group
        BY <1>1, <3>1 DEF PositionsTyped, IdsAt
      <3>3. m.code = n.code
        BY <1>1, <3>1, <3>2, CodeFound
      <3>4. m = n
        BY <1>1, <2>1, <3>2, <3>3 DEF NodesTyped
      <3> QED
        BY <3>1, <3>2, <3>4
    <2> QED
      BY <1>3, <2>1, <2>2, <2>3, <2>4
  <1>5. ASSUME NEW p \in Followed(uni.linked), NEW n \in NodesOf(uni, Subgroup)
        PROVE  p \in ResolveStudentUsers("subgroup", n.id) <=> <<"member", n.level, n.code, p>> \in uni.graph
    <2>1. n \in uni.nodes /\ n.level = Subgroup /\ CodeOf(uni, n.id) = n.code /\ p \in uni.linked
      BY <1>1, CodeFound DEF NodesOf, Followed
    <2>2. p \in ResolveStudentUsers("subgroup", n.id)
            <=> \E s \in uni.positions : s.person = p /\ s.active /\ n.id \in s.subs
      BY <2>1 DEF ResolveStudentUsers, QueryForScope
    <2>3. ASSUME NEW s \in uni.positions, s.person = p, s.active, n.id \in s.subs
          PROVE  <<"member", n.level, n.code, p>> \in Members(uni, p)
      BY <2>1, <2>3, MemberOf
    <2>4. ASSUME <<"member", n.level, n.code, p>> \in Members(uni, p)
          PROVE  \E s \in uni.positions : s.person = p /\ s.active /\ n.id \in s.subs
      <3>0. PICK s \in uni.positions : s.person = p /\ s.active /\ \E i \in s.subs : CodeOf(uni, i) = n.code
        BY <2>1, <2>4, MemberOf, LevelsApart
      <3>1. PICK i \in s.subs : s.person = p /\ s.active /\ CodeOf(uni, i) = n.code
        BY <3>0
      <3>2. PICK m \in uni.nodes : m.level = Subgroup /\ m.id = i
        BY <1>1, <3>1 DEF PositionsTyped, IdsAt
      <3>3. m.code = n.code
        BY <1>1, <3>1, <3>2, CodeFound
      <3>4. m = n
        BY <1>1, <2>1, <3>2, <3>3 DEF NodesTyped
      <3> QED
        BY <3>1, <3>2, <3>4
    <2> QED
      BY <1>3, <2>1, <2>2, <2>3, <2>4
  <1>6. ASSUME NEW n \in NodesOf(uni, Group) \cup NodesOf(uni, Subgroup), NEW p \in Followed(uni.linked)
        PROVE  p \in ResolveStudentUsers(IF n.level = Group THEN "group" ELSE "subgroup", n.id)
                 <=> <<"member", n.level, n.code, p>> \in uni.graph
    <2>1. CASE n \in NodesOf(uni, Group)
      <3>1. n.level = Group
        BY <2>1 DEF NodesOf
      <3> QED
        BY <1>4, <2>1, <3>1
    <2>2. CASE n \in NodesOf(uni, Subgroup)
      <3>1. n.level # Group
        BY <2>2, LevelsApart DEF NodesOf
      <3> QED
        BY <1>5, <2>2, <3>1
    <2> QED
      BY <2>1, <2>2
  <1>7. ASSUME NEW n \in uni.nodes, n.level # Faculty /\ Parent(n.level, n.code) \notin drift
        PROVE  OfObject(uni, "parent", n.level, n.code) = {<<"parent", n.level, n.code, CodeOf(uni, n.up)>>}
    BY <1>1, <1>7 DEF Follows, ParentFollows
  <1>8. ASSUME NEW n \in NodesOf(uni, Department), StaffOf(n.code) \notin drift
        PROVE  /\ OfObject(uni, "staff", Department, n.code) = Staff(uni, n.code)
               /\ \A t \in uni.posts : t.active /\ t.dept = n.id /\ t.person \in uni.linked => ResolveTeacherUser(t.person)
    <2>1. n.code \in NodeCodes
      BY <1>1 DEF NodesOf, NodesTyped, Node
    <2> QED
      BY <1>1, <1>8, <2>1 DEF Follows, StaffFollows, ResolveTeacherUser
  <1> QED
    BY <1>2, <1>6, <1>7, <1>8 DEF GraphFollowsTables

(* Every item of a batch or a pull keeps the invariant. *)
LEMMA SyncItemStep ==
  ASSUME UniversityInv, SyncItem
  PROVE  UniversityInv'
  <1>1. ASSUME NEW c \in Codes, HandleSyncCourses(c) \/ HandleSyncSemesters(c) PROVE UniversityInv'
    BY <1>1, UpsertRefStep DEF HandleSyncCourses, HandleSyncSemesters, SyncCourse, SyncSemester, Save, Keeps
  <1>2. ASSUME NEW c \in Codes, HandleSyncFaculties(c) PROVE UniversityInv'
    BY <1>2, SyncFacultyStep DEF HandleSyncFaculties
  <1>3. ASSUME NEW c \in Codes, NEW l, NEW pc, HandleHierarchyNodes(l, c, pc) PROVE UniversityInv'
    BY <1>3, SyncHierarchyNodeStep DEF HandleHierarchyNodes
  <1>4. ASSUME NEW p \in Students, NEW r, HandleSyncPersons(p, r) PROVE UniversityInv'
    BY <1>4, PersonStep DEF HandleSyncPersons, SyncPerson, Save, Keeps, Persons
  <1>5. ASSUME NEW p \in Students, NEW sc, NEW gc, NEW act \in BOOLEAN, HandleSyncStudentPositions(p, sc, gc, act)
        PROVE  UniversityInv'
    BY <1>5, SyncStudentPositionStep DEF HandleSyncStudentPositions
  <1>6. ASSUME NEW p \in Students, NEW c, HandleSyncTeacherPositions(p, c) \/ HandleSyncStudentSubgroups(p, c)
        PROVE  UniversityInv'
    BY <1>6, SyncTeacherPositionStep, SyncStudentSubgroupStep DEF HandleSyncTeacherPositions, HandleSyncStudentSubgroups
  <1>7. ASSUME NEW p, NEW c, NEW sem, NEW gc, HandleSyncTeachingAssignments(p, c, sem, gc) PROVE UniversityInv'
    BY <1>7, SyncTeachingAssignmentStep DEF HandleSyncTeachingAssignments
  <1>8. ASSUME NEW p, NEW k \in Kinds, NEW l, NEW c, HandleSyncAdminAppointments(p, k, l, c) PROVE UniversityInv'
    BY <1>8, SyncAdminAppointmentStep DEF HandleSyncAdminAppointments
  <1> QED
    BY <1>1, <1>2, <1>3, <1>4, <1>5, <1>6, <1>7, <1>8 DEF SyncItem

(* The administration of a level of the hierarchy keeps the invariant. *)
LEMMA EntityStep ==
  ASSUME UniversityInv, NEW l \in Levels, EntityAt(l)
  PROVE  UniversityInv'
  <1>1. ASSUME NEW n \in NodesOf(uni, l) PROVE n \in uni.nodes
    BY DEF NodesOf
  <1> QED
    BY <1>1, CreateEntityStep, UpdateEntityStep, DeleteEntityStep DEF EntityAt

(* The positions page of a person keeps the invariant. *)
LEMMA PersonPositionStep ==
  ASSUME UniversityInv, NEW p, HandlePersonPositionMutation(p)
  PROVE  UniversityInv'
  <1>1. ASSUME NEW s \in uni.positions, NEW g, HandleUpdateStudentPosition(s, g, ~s.active, s.subs) PROVE UniversityInv'
    <2>1. s.active \in BOOLEAN
      BY DEF UniversityInv, DbTyped, PositionsTyped, Position
    <2> QED
      BY <1>1, <2>1, UpdateStudentPositionStep
  <1>2. ASSUME NEW s \in uni.positions, HandleDeleteStudentPosition(s) PROVE UniversityInv'
    BY <1>2, DeleteStudentPositionStep
  <1>3. ASSUME NEW t \in uni.posts, HandleUpdateTeacherPosition(t, t.dept, ~t.active) PROVE UniversityInv'
    <2>1. t.dept \in IdsAt(uni.nodes, Department)
      BY <1>3, IdsAre DEF HandleUpdateTeacherPosition, ValidateTeacherPositionRequest
    <2>2. t.active \in BOOLEAN
      BY DEF UniversityInv, DbTyped, PostsTyped, Post
    <2> QED
      BY <1>3, <2>1, <2>2, UpdateTeacherPositionStep DEF HandleUpdateTeacherPosition
  <1>4. ASSUME NEW t \in uni.posts, HandleDeleteTeacherPosition(t) PROVE UniversityInv'
    BY <1>4, DeleteTeacherPositionStep
  <1> QED
    BY <1>1, <1>2, <1>3, <1>4 DEF HandlePersonPositionMutation, GetAllPositions

(* The handlers of a person keep the invariant. *)
LEMMA PersonsHandlersStep ==
  ASSUME UniversityInv, NEW p \in Persons,
         \/ CreatePersonForUser(p) \/ LinkPersonToUser(p) \/ HandlePersonPositionMutation(p)
         \/ \E s \in uni.positions : HandleUpdateStudent(p, s)
         \/ \E g \in Ids(NodesOf(uni, Group)), act \in BOOLEAN, subs \in SUBSET Ids(NodesOf(uni, Subgroup)) :
              \/ HandleCreateStudentPosition(p, g, act, subs)
              \/ \E s \in uni.positions : HandleUpdateStudentPosition(s, g, act, subs)
         \/ \E dept \in Ids(NodesOf(uni, Department)), act \in BOOLEAN : HandleCreateTeacherPosition(p, dept, act)
         \/ \E k \in Kinds, l \in {0, Faculty} : \E scope \in Ids(NodesOf(uni, l)) \cup {0} :
              HandleCreateAdminAppointment(p, k, l, scope)
  PROVE  UniversityInv'
  <1>1. CASE CreatePersonForUser(p) \/ LinkPersonToUser(p)
    BY <1>1, PersonStep DEF CreatePersonForUser, LinkPersonToUser, Save, Keeps
  <1>2. CASE HandlePersonPositionMutation(p)
    BY <1>2, PersonPositionStep
  <1>3. ASSUME NEW s \in uni.positions, HandleUpdateStudent(p, s) PROVE UniversityInv'
    BY <1>3, StutterStep DEF HandleUpdateStudent
  <1>4. ASSUME NEW g, NEW act \in BOOLEAN, NEW subs, HandleCreateStudentPosition(p, g, act, subs) PROVE UniversityInv'
    BY <1>4, CreateStudentPositionStep
  <1>5. ASSUME NEW g, NEW act \in BOOLEAN, NEW subs, NEW s \in uni.positions, HandleUpdateStudentPosition(s, g, act, subs)
        PROVE  UniversityInv'
    BY <1>5, UpdateStudentPositionStep
  <1>6. ASSUME NEW dept, NEW act \in BOOLEAN, HandleCreateTeacherPosition(p, dept, act) PROVE UniversityInv'
    BY <1>6, CreateTeacherPositionStep
  <1>7. ASSUME NEW k, NEW l, NEW scope, HandleCreateAdminAppointment(p, k, l, scope) PROVE UniversityInv'
    BY <1>7, AdminAppointmentStep
  <1> QED
    BY <1>1, <1>2, <1>3, <1>4, <1>5, <1>6, <1>7

(* Imports and manual creation keep the invariant. *)
LEMMA ImportsStep ==
  ASSUME UniversityInv, NEW p \in Students, NEW r \in BOOLEAN, NEW act \in BOOLEAN, NEW gc \in Codes,
         \/ \E sc \in Codes \cup {""}, c \in Codes : HandleImportStudents(p, r, sc, gc, act, c)
         \/ \E c \in Codes : HandleCreateStudentManual(p, r, gc, c)
         \/ \E dept \in Ids(NodesOf(uni, Department)) : HandleCreateTeacherManual(p, r, dept, act)
  PROVE  UniversityInv'
  <1>1. ASSUME NEW sc, NEW c, HandleImportStudents(p, r, sc, gc, act, c) PROVE UniversityInv'
    BY <1>1, ImportStudentStep DEF HandleImportStudents
  <1>2. ASSUME NEW c, HandleCreateStudentManual(p, r, gc, c) PROVE UniversityInv'
    BY <1>2, ImportStudentStep DEF HandleCreateStudentManual
  <1>3. ASSUME NEW dept, HandleCreateTeacherManual(p, r, dept, act) PROVE UniversityInv'
    BY <1>3, CreateTeacherStep DEF HandleCreateTeacherManual, Persons
  <1> QED
    BY <1>1, <1>2, <1>3

(* Every step keeps the invariant. *)
LEMMA UniversityStep ==
  ASSUME UniversityInv, UniversityNext
  PROVE  UniversityInv'
  <1>1. CASE RunBatchSync
    BY <1>1, SyncItemStep DEF RunBatchSync
  <1>2. CASE \E p \in Students, registered, act \in BOOLEAN, gc \in Codes :
               \/ \E sc \in Codes \cup {""}, c \in Codes : HandleImportStudents(p, registered, sc, gc, act, c)
               \/ \E c \in Codes : HandleCreateStudentManual(p, registered, gc, c)
               \/ \E dept \in Ids(NodesOf(uni, Department)) : HandleCreateTeacherManual(p, registered, dept, act)
    BY <1>2, ImportsStep
  <1>3. CASE HandleFaculty \/ HandleDepartment \/ HandleProgram \/ HandleStream \/ HandleGroup \/ HandleSubgroup
    BY <1>3, EntityStep, LevelsApart DEF HandleFaculty, HandleDepartment, HandleProgram, HandleStream, HandleGroup, HandleSubgroup
  <1>4. CASE HandleCourse \/ HandleSemester
    BY <1>4, RefStep DEF HandleCourse, HandleSemester
  <1>5. CASE \E p \in Persons :
          \/ CreatePersonForUser(p) \/ LinkPersonToUser(p) \/ HandlePersonPositionMutation(p)
          \/ \E s \in uni.positions : HandleUpdateStudent(p, s)
          \/ \E g \in Ids(NodesOf(uni, Group)), act \in BOOLEAN, subs \in SUBSET Ids(NodesOf(uni, Subgroup)) :
               \/ HandleCreateStudentPosition(p, g, act, subs)
               \/ \E s \in uni.positions : HandleUpdateStudentPosition(s, g, act, subs)
          \/ \E dept \in Ids(NodesOf(uni, Department)), act \in BOOLEAN : HandleCreateTeacherPosition(p, dept, act)
          \/ \E k \in Kinds, l \in {0, Faculty} : \E scope \in Ids(NodesOf(uni, l)) \cup {0} :
               HandleCreateAdminAppointment(p, k, l, scope)
    BY <1>5, PersonsHandlersStep
  <1>6. ASSUME NEW s \in uni.positions, HandleDeleteStudentPosition(s) PROVE UniversityInv'
    BY <1>6, DeleteStudentPositionStep
  <1>7. ASSUME NEW t \in uni.posts, HandleDeleteTeacherPosition(t) PROVE UniversityInv'
    BY <1>7, DeleteTeacherPositionStep
  <1>8. ASSUME NEW t \in uni.posts, NEW dept \in Ids(NodesOf(uni, Department)), NEW act \in BOOLEAN,
               HandleUpdateTeacherPosition(t, dept, act)
        PROVE  UniversityInv'
    BY <1>8, IdsAre, UpdateTeacherPositionStep DEF HandleUpdateTeacherPosition
  <1>9. ASSUME NEW a, HandleDeleteAdminAppointment(a) \/ \E scope, act : HandleUpdateAdminAppointment(a, scope, act)
        PROVE  UniversityInv'
    BY <1>9, AdminAppointmentStep
  <1>10. ASSUME NEW g \in Ids(NodesOf(uni, Group)) \cup {0}, NEW act \in BOOLEAN, DeanUpdateStudentPosition(g, act)
         PROVE  UniversityInv'
    BY <1>10, DeanUpdateStep
  <1> QED
    BY <1>1, <1>2, <1>3, <1>4, <1>5, <1>6, <1>7, <1>8, <1>9, <1>10 DEF UniversityNext

(* Whatever mix of synchronization, import, administration and deans' edits came before,   *)
(* the graph says what the tables say of every key whose last writer wrote all of it, and  *)
(* a notification to a group or subgroup then reaches exactly its linked members.          *)
THEOREM GraphIsTables == UniversitySpec => []GraphFollowsTables
  <1>1. UniversityInit => UniversityInv
    BY UniversityStarts
  <1>2. UniversityInv /\ [UniversityNext]_universityVars => UniversityInv'
    <2>1. UniversityInv /\ UNCHANGED universityVars => UniversityInv'
      BY StutterStep DEF universityVars
    <2> QED
      BY <2>1, UniversityStep
  <1>3. UniversityInv => GraphFollowsTables
    BY InvFollows
  <1> QED
    BY <1>1, <1>2, <1>3, PTL DEF UniversitySpec
=============================================================================
