---------------------------- MODULE MpioPlanProofs ----------------------------
(***************************************************************************)
(* The inductive invariant behind CommandsInOrder, and the steps of the    *)
(* mailbox and of MPIO's firmware.                                         *)
(*                                                                         *)
(* CommandsInOrder is inductive only together with what the host has still *)
(* to do: a link set-up that is in progress is followed by a wait for it   *)
(* before the socket gets another message, every training comes behind the *)
(* release of the slots, and the stages a socket with ports has not gone   *)
(* through are in front of that release.                                   *)
(*                                                                         *)
(* Then the plan itself, the steps that MpioEarlyInitV1 and the functions  *)
(* it calls have still to take: steps that take the place of the one at    *)
(* the head keep the plan in order, and it is in order at first.           *)
(***************************************************************************)
EXTENDS MpioInit, TLAPS

\* The steps that are functions of the host, not messages.
HostSteps ==
  {"ParsePlatformTopology", "MpioPortMapping", "MapAsk", "SyncEarlyTrainRemap",
   "GpioSlotResetControl", "EarlyLink", "TrainInstance", "FinishInstance", "AfterDxioInit",
   "UpdatePortTrainingStatus", "UpdateAskAfterTraining", "MpioVisibilityControl"}

Steps == Requests \cup HostSteps

Todo == Sockets \X Steps

\* The stages whose result the host fetches at once; TRAIN's waits for the other sockets.
Stages == SetupLink \ {"TRAIN"}

Trainings == {"EARLY_TRAIN", "TRAIN", "EarlyLink", "TrainInstance"}

\* The steps of a socket that wait for its link set-up before they do anything else.
Cleans(s, x) == x \in {<<s, "GET_STATUS">>, <<s, "FinishInstance">>}

-----------------------------------------------------------------------------
(* What is left to do                                                      *)

\* A stage is followed by the wait for it.
StagesWait(t) ==
  \A i \in 1..Len(t) : t[i][2] \in Stages =>
    i + 1 \in 1..Len(t) /\ t[i + 1] = <<t[i][1], "GET_STATUS">>

\* A training is sent as soon as it is decided on, and finished before anything else
\* happens to its socket.
TrainsFinish(t) ==
  /\ \A i \in 1..Len(t) : t[i][2] = "TRAIN" => i = 1
  /\ \A i, j \in 1..Len(t) :
       i < j /\ t[i][2] \in {"TRAIN", "TrainInstance"} /\ t[j][1] = t[i][1] /\ ~Cleans(t[i][1], t[j])
       => \E k \in (i + 1)..(j - 1) : Cleans(t[i][1], t[k])

\* The slots are released once, behind all parsing and before all training.
ReleasedOnce(t, r) ==
  /\ \A i \in 1..Len(t) : t[i][2] \in Trainings =>
       ~r \/ \E k \in 1..(i - 1) : t[k][2] = "GpioSlotResetControl"
  /\ \A i \in 1..Len(t) : t[i][2] = "ParsePlatformTopology" =>
       \E g \in (i + 1)..Len(t) : t[g][2] = "GpioSlotResetControl"
  /\ \A i, j \in 1..Len(t) :
       t[i][2] = "GpioSlotResetControl" /\ t[j][2] = "GpioSlotResetControl" => i = j
  /\ r <=> \E g \in 1..Len(t) : t[g][2] = "GpioSlotResetControl"

PlanOK(t, r) ==
  t \in Seq(Todo) /\ r \in BOOLEAN /\ StagesWait(t) /\ TrainsFinish(t) /\ ReleasedOnce(t, r)

-----------------------------------------------------------------------------
(* The mailbox                                                             *)

Answer == [from : {"host", "mpio"}, busy : BOOLEAN]

Box == [ready : BOOLEAN, doorbell : BOOLEAN, id : Steps \cup {"none"}, args : Answer]

MailTypes ==
  /\ call \in {"none", "args", "id", "wait"}
  /\ MpioArg \in Answer
  /\ mailbox \in [Sockets -> Box]
  /\ DOMAIN fw = Sockets
  /\ \A s \in Sockets :
       fw[s] = [op |-> fw[s].op, owes |-> fw[s].owes, disturbed |-> fw[s].disturbed,
                done |-> fw[s].done, ask |-> fw[s].ask]
  /\ DOMAIN AskBuffer = Sockets

\* A socket's registers are in use only while the host is in a request for it.
MailOK ==
  /\ call # "none" => todo # <<>> /\ Head2 \in Requests
  /\ call = "id" => ~mailbox[S].ready /\ mailbox[S].id = Head2
  /\ \A s \in Sockets : mailbox[s].doorbell =>
       todo # <<>> /\ S = s /\ call = "wait" /\ mailbox[s].id = Head2 /\ ~mailbox[s].ready
  /\ \A s \in Sockets : fw[s].owes =>
       todo # <<>> /\ S = s /\ call = "wait" /\ ~mailbox[s].doorbell /\ ~mailbox[s].ready
  /\ call = "wait" /\ mailbox[S].ready => mailbox[S].args.from = "mpio"
  /\ MpioArg.from = "mpio"

\* What MPIO has made of the request it took: a status without the busy flag means that
\* it has nothing in progress, a posted message is in progress or done.
TakenOK ==
  call = "wait" /\ ~mailbox[S].doorbell =>
    /\ Head2 = "GET_STATUS" /\ ~mailbox[S].args.busy => fw[S].op = "none"
    /\ Head2 \in Posted => fw[S].op = Head2 \/ Head2 \in fw[S].done

-----------------------------------------------------------------------------
(* The link set-ups                                                        *)

\* The request at the head is the set-up that MPIO carries out.
Posting(s) == call = "wait" /\ ~mailbox[s].doorbell

\* A stage in progress: the host is in its request, or waits for it.
StageOK ==
  \A s \in Sockets : fw[s].op \in Stages =>
    /\ todo # <<>> /\ S = s
    /\ Head2 = "GET_STATUS" \/ (Head2 = fw[s].op /\ Posting(s))

\* A training in progress: before the socket gets another message the host waits for it.
TrainOK ==
  /\ \A s \in Sockets : fw[s].op = "TRAIN" =>
       /\ AskBuffer[s] # <<>>
       /\ \A j \in 1..Len(todo) : todo[j][1] = s /\ ~Cleans(s, todo[j]) =>
            \/ \E i \in 1..(j - 1) : Cleans(s, todo[i])
            \/ j = 1 /\ Head2 = "TRAIN" /\ Posting(s)
  /\ todo # <<>> /\ Head2 = "TRAIN" => AskBuffer[S] # <<>>

\* A socket with ports: each stage before the release is done, in progress or to come.
HasPorts(s) == AskBuffer[s] # <<>> \/ fw[s].ask # <<>>

Ahead(s, x) ==
  \E k \in 1..Len(todo) : /\ todo[k] = <<s, x>>
                          /\ \E g \in (k + 1)..Len(todo) : todo[g][2] = "GpioSlotResetControl"

ReleaseOK ==
  /\ \A s \in Sockets : fw[s].op \in {"EARLY_TRAIN", "TRAIN"} => ~reset
  /\ \A s \in Sockets : HasPorts(s) =>
       \A x \in {"MAP", "RECONFIG", "PERST"} :
         x \in fw[s].done \/ (reset /\ fw[s].op = x) \/ Ahead(s, x)

IInv ==
  /\ PlanOK(todo, reset) /\ MailTypes /\ MailOK /\ TakenOK
  /\ StageOK /\ TrainOK /\ ReleaseOK /\ SetupUndisturbed
-----------------------------------------------------------------------------
(* The step at the head                                                    *)

\* TrainsFinish and ReleasedOnce for one step.
LEMMA FinishesBefore ==
  ASSUME NEW t, TrainsFinish(t), NEW i \in 1..Len(t), NEW j \in 1..Len(t), i < j,
         t[i][2] \in {"TRAIN", "TrainInstance"}, t[j][1] = t[i][1], ~Cleans(t[i][1], t[j])
  PROVE  \E k \in (i + 1)..(j - 1) : Cleans(t[i][1], t[k])
  BY DEF TrainsFinish

LEMMA ReleasedBefore ==
  ASSUME NEW t, NEW r, ReleasedOnce(t, r), NEW i \in 1..Len(t), t[i][2] \in Trainings
  PROVE  ~r \/ \E k \in 1..(i - 1) : t[k][2] = "GpioSlotResetControl"
  BY DEF ReleasedOnce

LEMMA HeadFacts ==
  ASSUME NEW t \in Seq(Todo), t # <<>>
  PROVE  /\ Head(t) = t[1] /\ t[1][1] \in Sockets /\ t[1][2] \in Steps
         /\ Len(t) \in Nat /\ Len(t) >= 1 /\ 1 \in 1..Len(t)
  BY DEF Todo

LEMMA HereFacts ==
  ASSUME PlanOK(todo, reset), todo # <<>>
  PROVE  /\ todo \in Seq(Todo) /\ S = todo[1][1] /\ Head2 = todo[1][2] /\ S \in Sockets
         /\ Head2 \in Steps /\ Len(todo) \in Nat /\ Len(todo) >= 1 /\ 1 \in 1..Len(todo)
  <1>1. todo \in Seq(Todo)
    BY Zenon DEF PlanOK
  <1>2. QED
    BY <1>1, HeadFacts, Zenon DEF S, Head2

-----------------------------------------------------------------------------
(* The steps of the mailbox                                                *)

\* A step that touches neither the plan nor MPIO.
LEMMA Frame ==
  ASSUME IInv, UNCHANGED <<todo, call, MpioArg, mailbox, fw, reset, AskBuffer>>
  PROVE  IInv'
  <1>1. PlanOK(todo, reset)' /\ MailTypes'
    BY DEF IInv, MailTypes
  <1>2. MailOK' /\ TakenOK'
    BY DEF IInv, MailOK, TakenOK, Head2, S
  <1>3. StageOK' /\ SetupUndisturbed'
    BY DEF IInv, StageOK, Posting, Head2, S, SetupUndisturbed
  <1>4. TrainOK'
    BY DEF IInv, TrainOK, Posting, Head2, S
  <1>5. ReleaseOK'
    BY ZenonT(40) DEF IInv, ReleaseOK, HasPorts, Ahead
  <1>6. QED
    BY <1>1, <1>2, <1>3, <1>4, <1>5, Zenon DEF IInv

\* The set-ups as the host sees them, while it stays in a request.
LEMMA KeepSetups ==
  ASSUME IInv, UNCHANGED <<todo, fw, AskBuffer, reset>>,
         \A s \in Sockets : Posting(s) => Posting(s)' \/ Head2 = "GET_STATUS"
  PROVE  /\ S' = S /\ Head2' = Head2 /\ PlanOK(todo, reset)'
         /\ StageOK' /\ TrainOK' /\ ReleaseOK' /\ SetupUndisturbed'
  <1>1. S' = S /\ Head2' = Head2
    BY DEF S, Head2
  <1>2. PlanOK(todo, reset)' /\ SetupUndisturbed'
    BY DEF IInv, SetupUndisturbed
  <1>3. StageOK'
    <2>1. "GET_STATUS" \notin Stages
      BY DEF Stages, SetupLink
    <2>2. QED
      BY <1>1, <2>1 DEF IInv, StageOK
  <1>4. TrainOK'
    BY <1>1 DEF IInv, TrainOK
  <1>5. ReleaseOK'
    BY ZenonT(40) DEF IInv, ReleaseOK, HasPorts, Ahead
  <1>6. QED
    BY <1>1, <1>2, <1>3, <1>4, <1>5

LEMMA WriteArgumentsStep == IInv /\ WriteArguments => IInv'
  <1> SUFFICES ASSUME IInv, WriteArguments
               PROVE  IInv'
    OBVIOUS
  <1>1. /\ todo # <<>> /\ Head2 \in Requests /\ call = "none" /\ call' = "args"
        /\ mailbox' = [mailbox EXCEPT ![S].args = [from |-> "host", busy |-> FALSE]]
        /\ UNCHANGED <<todo, fw, AskBuffer, reset, MpioArg>>
    BY DEF WriteArguments, flow
  <1>2. S \in Sockets
    BY <1>1, HereFacts, Zenon DEF IInv
  <1>3. S' = S /\ Head2' = Head2 /\ PlanOK(todo, reset)' /\ StageOK' /\ TrainOK' /\ ReleaseOK' /\ SetupUndisturbed'
    <2>1. \A s \in Sockets : ~Posting(s)
      BY <1>1 DEF Posting
    <2>2. QED
      BY <1>1, <2>1, KeepSetups
  <1>4. MailTypes'
    <2>1. mailbox[S] \in Box /\ mailbox \in [Sockets -> Box]
      BY <1>2 DEF IInv, MailTypes
    <2>2. PICK m \in Box : mailbox' = [mailbox EXCEPT ![S] = m]
      <3>1. [mailbox[S] EXCEPT !.args = [from |-> "host", busy |-> FALSE]] \in Box
        BY <1>2, <2>1, Zenon DEF Box, Answer
      <3>2. QED
        BY <1>1, <3>1, Zenon
    <2>3. mailbox' \in [Sockets -> Box]
      BY <2>1, <2>2, Zenon
    <2>4. QED
      BY <1>1, <2>3 DEF IInv, MailTypes
  <1>5. \A s \in Sockets : mailbox'[s].doorbell = mailbox[s].doorbell
    BY <1>1, <1>2 DEF IInv, MailTypes, Box
  <1>6. MailOK' /\ TakenOK'
    BY <1>1, <1>3, <1>5 DEF IInv, MailOK, TakenOK
  <1>7. QED
    BY <1>3, <1>4, <1>6, Zenon DEF IInv

LEMMA WriteMessageIdStep == IInv /\ WriteMessageId => IInv'
  <1> SUFFICES ASSUME IInv, WriteMessageId
               PROVE  IInv'
    OBVIOUS
  <1>1. /\ call = "args" /\ call' = "id"
        /\ mailbox' = [mailbox EXCEPT ![S] = [@ EXCEPT !.id = Head2, !.ready = FALSE]]
        /\ UNCHANGED <<todo, fw, AskBuffer, reset, MpioArg>>
    BY DEF WriteMessageId, WithMessageId, flow
  <1>2. todo # <<>> /\ Head2 \in Requests
    BY <1>1 DEF IInv, MailOK
  <1>3. S \in Sockets /\ Head2 \in Steps
    BY <1>2, HereFacts, Zenon DEF IInv
  <1>4. S' = S /\ Head2' = Head2 /\ PlanOK(todo, reset)' /\ StageOK' /\ TrainOK' /\ ReleaseOK' /\ SetupUndisturbed'
    <2>1. \A s \in Sockets : ~Posting(s)
      BY <1>1 DEF Posting
    <2>2. QED
      BY <1>1, <2>1, KeepSetups
  <1>5. MailTypes'
    <2>1. mailbox[S] \in Box /\ mailbox \in [Sockets -> Box]
      BY <1>3 DEF IInv, MailTypes
    <2>2. PICK m \in Box : mailbox' = [mailbox EXCEPT ![S] = m]
      <3>1. [mailbox[S] EXCEPT !.id = Head2, !.ready = FALSE] \in Box
        BY <1>3, <2>1, Zenon DEF Box, Answer
      <3>2. QED
        BY <1>1, <3>1, Zenon
    <2>3. mailbox' \in [Sockets -> Box]
      BY <2>1, <2>2, Zenon
    <2>4. QED
      BY <1>1, <2>3 DEF IInv, MailTypes
  <1>6. /\ mailbox'[S].id = Head2 /\ ~mailbox'[S].ready
        /\ \A s \in Sockets : mailbox'[s].doorbell = mailbox[s].doorbell
    BY <1>1, <1>3 DEF IInv, MailTypes, Box
  <1>7. MailOK' /\ TakenOK'
    BY <1>1, <1>2, <1>4, <1>6 DEF IInv, MailOK, TakenOK
  <1>8. QED
    BY <1>4, <1>5, <1>7, Zenon DEF IInv

LEMMA RingDoorbellStep == IInv /\ RingDoorbell => IInv'
  <1> SUFFICES ASSUME IInv, RingDoorbell
               PROVE  IInv'
    OBVIOUS
  <1>1. /\ call = "id" /\ call' = "wait" /\ mailbox' = [mailbox EXCEPT ![S].doorbell = TRUE]
        /\ UNCHANGED <<todo, fw, AskBuffer, reset, MpioArg>>
    BY DEF RingDoorbell, flow
  <1>2. todo # <<>> /\ Head2 \in Requests /\ ~mailbox[S].ready /\ mailbox[S].id = Head2
    BY <1>1 DEF IInv, MailOK
  <1>3. S \in Sockets
    BY <1>2, HereFacts, Zenon DEF IInv
  <1>4. S' = S /\ Head2' = Head2 /\ PlanOK(todo, reset)' /\ StageOK' /\ TrainOK' /\ ReleaseOK' /\ SetupUndisturbed'
    <2>1. \A s \in Sockets : ~Posting(s)
      BY <1>1 DEF Posting
    <2>2. QED
      BY <1>1, <2>1, KeepSetups
  <1>5. MailTypes'
    <2>1. mailbox[S] \in Box /\ mailbox \in [Sockets -> Box]
      BY <1>3 DEF IInv, MailTypes
    <2>2. PICK m \in Box : mailbox' = [mailbox EXCEPT ![S] = m]
      <3>1. [mailbox[S] EXCEPT !.doorbell = TRUE] \in Box
        BY <1>3, <2>1, Zenon DEF Box, Answer
      <3>2. QED
        BY <1>1, <3>1, Zenon
    <2>3. mailbox' \in [Sockets -> Box]
      BY <2>1, <2>2, Zenon
    <2>4. QED
      BY <1>1, <2>3 DEF IInv, MailTypes
  <1>6. /\ mailbox'[S].doorbell /\ ~mailbox'[S].ready /\ mailbox'[S].id = Head2
        /\ \A s \in Sockets : s # S => mailbox'[s] = mailbox[s]
    BY <1>1, <1>2, <1>3 DEF IInv, MailTypes, Box
  <1>7. \A s \in Sockets : ~mailbox[s].doorbell /\ ~fw[s].owes
    BY <1>1 DEF IInv, MailOK
  <1>8. MailOK' /\ TakenOK'
    BY <1>1, <1>2, <1>4, <1>6, <1>7 DEF IInv, MailOK, TakenOK
  <1>9. QED
    BY <1>4, <1>5, <1>8, Zenon DEF IInv

LEMMA ReadAgainStep ==
  ASSUME IInv, call = "wait", mailbox[S].ready, MpioArg' = mailbox[S].args, call' = "none",
         Head2 = "GET_STATUS", UNCHANGED <<todo, mailbox, fw, AskBuffer, reset>>
  PROVE  IInv'
  <1>1. todo # <<>> /\ mailbox[S].args.from = "mpio"
    BY DEF IInv, MailOK
  <1>2. S \in Sockets
    BY <1>1, HereFacts, Zenon DEF IInv
  <1>3. S' = S /\ Head2' = Head2 /\ PlanOK(todo, reset)' /\ StageOK' /\ TrainOK' /\ ReleaseOK' /\ SetupUndisturbed'
    BY KeepSetups
  <1>4. MailTypes'
    <2>1. mailbox[S].args \in Answer
      BY <1>2 DEF IInv, MailTypes, Box
    <2>2. QED
      BY <2>1 DEF IInv, MailTypes
  <1>5. \A s \in Sockets : ~mailbox[s].doorbell /\ ~fw[s].owes
    BY <1>2 DEF IInv, MailOK
  <1>6. MailOK' /\ TakenOK'
    BY <1>1, <1>5 DEF MailOK, TakenOK
  <1>7. QED
    BY <1>3, <1>4, <1>6, Zenon DEF IInv

-----------------------------------------------------------------------------
(* The firmware                                                            *)

\* A message that is not a status request finds no link set-up in progress.
LEMMA DoorbellFacts ==
  ASSUME IInv, NEW s \in Sockets, mailbox[s].doorbell
  PROVE  /\ todo # <<>> /\ S = s /\ call = "wait" /\ mailbox[s].id = Head2 /\ ~mailbox[s].ready
         /\ Head2 \in Requests /\ ~Posting(s) /\ ~fw[s].owes
         /\ Head2 # "GET_STATUS" => fw[s].op \notin SetupLink
  <1>1. /\ todo # <<>> /\ S = s /\ call = "wait" /\ mailbox[s].id = Head2 /\ ~mailbox[s].ready
        /\ ~fw[s].owes
    BY Zenon DEF IInv, MailOK
  <1>2. Head2 \in Requests
    BY <1>1 DEF IInv, MailOK
  <1>3. ~Posting(s)
    BY DEF Posting
  <1>4. ASSUME Head2 # "GET_STATUS"
        PROVE  fw[s].op \notin Stages
    BY <1>3, <1>4 DEF IInv, StageOK
  <1>5. ASSUME Head2 # "GET_STATUS"
        PROVE  fw[s].op # "TRAIN"
    <2>1. 1 \in 1..Len(todo) /\ todo[1][1] = s /\ todo[1][2] = Head2
      BY <1>1, HereFacts, Zenon DEF IInv
    <2>2. Head2 # "FinishInstance"
      BY <1>2 DEF Requests, Posted, SetupLink
    <2>3. ~Cleans(s, todo[1])
      BY <1>5, <2>1, <2>2 DEF Cleans
    <2>4. ~\E i \in 1..(1 - 1) : Cleans(s, todo[i])
      OBVIOUS
    <2>5. QED
      BY <1>3, <2>1, <2>3, <2>4, Zenon DEF IInv, TrainOK
  <1>6. QED
    BY <1>1, <1>2, <1>3, <1>4, <1>5 DEF Stages

LEMMA FwAcceptStep == ASSUME NEW s \in Sockets PROVE IInv /\ FwAccept(s) => IInv'
  <1> SUFFICES ASSUME IInv, FwAccept(s)
               PROVE  IInv'
    OBVIOUS
  <1>1. /\ mailbox[s].doorbell /\ mailbox[s].id \in Posted
        /\ UNCHANGED <<todo, call, MpioArg, AskBuffer, reset>>
    BY DEF FwAccept, flow
  <1>2. /\ todo # <<>> /\ S = s /\ call = "wait" /\ mailbox[s].id = Head2 /\ ~mailbox[s].ready
        /\ Head2 \in Requests /\ ~Posting(s) /\ Head2 \in Posted /\ Head2 # "GET_STATUS"
        /\ fw[s].op \notin SetupLink
    <2>1. mailbox[s].id # "GET_STATUS"
      BY <1>1 DEF Posted, SetupLink
    <2>2. QED
      BY <1>1, <2>1, DoorbellFacts
  <1>3. PICK atOnce \in BOOLEAN :
          /\ fw' = [fw EXCEPT ![s] = [Heard(fw[s], Head2) EXCEPT !.op = Head2, !.owes = ~atOnce]]
          /\ mailbox' = [mailbox EXCEPT ![s] =
                           IF atOnce THEN Answered(@, FALSE) ELSE [@ EXCEPT !.doorbell = FALSE]]
    BY <1>2, Zenon DEF FwAccept
  <1>4. /\ DOMAIN fw = Sockets /\ mailbox \in [Sockets -> Box] /\ mailbox[s] \in Box
        /\ \A r \in Sockets : fw[r] = [op |-> fw[r].op, owes |-> fw[r].owes, disturbed |-> fw[r].disturbed,
                                       done |-> fw[r].done, ask |-> fw[r].ask]
    BY DEF IInv, MailTypes
  <1>5. ~fw[s].disturbed
    BY Zenon DEF IInv, SetupUndisturbed
  <1>6. /\ DOMAIN fw' = Sockets
        /\ \A r \in Sockets : r # s => fw'[r] = fw[r]
        /\ fw'[s] = [Heard(fw[s], Head2) EXCEPT !.op = Head2, !.owes = ~atOnce]
    BY <1>3, <1>4
  <1>7. fw'[s] = [op |-> Head2, owes |-> ~atOnce, disturbed |-> fw[s].disturbed \/ FALSE,
                  done |-> fw[s].done, ask |-> fw[s].ask]
    <2>1. PICK f : f = fw[s]
      BY Zenon
    <2>2. /\ f = [op |-> f.op, owes |-> f.owes, disturbed |-> f.disturbed, done |-> f.done, ask |-> f.ask]
          /\ f.op \notin SetupLink
      BY <1>2, <1>4, <2>1, Zenon
    <2>3. Heard(f, Head2) = [f EXCEPT !.disturbed = f.disturbed \/ FALSE]
      BY <2>2 DEF Heard
    <2>4. QED
      BY <1>6, <2>1, <2>2, <2>3, ZenonT(30)
  <1>8. /\ fw'[s].op = Head2 /\ fw'[s].owes = ~atOnce /\ ~fw'[s].disturbed
        /\ fw'[s].done = fw[s].done /\ fw'[s].ask = fw[s].ask
    <2>1. PICK d, o : d = (fw[s].disturbed \/ FALSE) /\ o = ~atOnce
      BY Zenon
    <2>2. fw'[s] = [op |-> Head2, owes |-> o, disturbed |-> d, done |-> fw[s].done, ask |-> fw[s].ask]
      BY <1>7, <2>1, Zenon
    <2>3. /\ fw'[s].op = Head2 /\ fw'[s].owes = o /\ fw'[s].disturbed = d
          /\ fw'[s].done = fw[s].done /\ fw'[s].ask = fw[s].ask
      BY <2>2
    <2>4. ~d
      BY <1>5, <2>1, Zenon
    <2>5. QED
      BY <2>1, <2>3, <2>4, Zenon
  <1>9. PICK m \in Box : /\ mailbox' = [mailbox EXCEPT ![s] = m] /\ ~m.doorbell
                         /\ m.ready = atOnce /\ (m.ready => m.args.from = "mpio")
    <2>1. CASE atOnce
      <3>1. Answered(mailbox[s], FALSE) \in Box
        BY <1>4, Zenon DEF Answered, Box, Answer
      <3>2. /\ ~Answered(mailbox[s], FALSE).doorbell /\ Answered(mailbox[s], FALSE).ready = TRUE
            /\ Answered(mailbox[s], FALSE).args.from = "mpio"
        BY <1>4 DEF Answered, Box
      <3>3. QED
        BY <1>3, <2>1, <3>1, <3>2, Zenon
    <2>2. CASE ~atOnce
      <3>1. [mailbox[s] EXCEPT !.doorbell = FALSE] \in Box
        BY <1>4, Zenon DEF Box
      <3>2. /\ ~[mailbox[s] EXCEPT !.doorbell = FALSE].doorbell
            /\ [mailbox[s] EXCEPT !.doorbell = FALSE].ready = mailbox[s].ready
        BY <1>4 DEF Box
      <3>3. mailbox[s].ready = FALSE
        BY <1>2, <1>4 DEF Box
      <3>4. QED
        BY <1>3, <2>2, <3>1, <3>2, <3>3, Zenon
    <2>3. QED
      BY <2>1, <2>2
  <1>10. /\ mailbox'[s] = m /\ \A r \in Sockets : r # s => mailbox'[r] = mailbox[r]
    BY <1>4, <1>9
  <1>11. S' = S /\ Head2' = Head2
    BY <1>1 DEF S, Head2
  <1>12. MailTypes'
    <2>1. mailbox' \in [Sockets -> Box]
      BY <1>4, <1>9, Zenon
    <2>2. \A r \in Sockets : fw'[r] = [op |-> fw'[r].op, owes |-> fw'[r].owes, disturbed |-> fw'[r].disturbed,
                                       done |-> fw'[r].done, ask |-> fw'[r].ask]
      BY <1>4, <1>6, <1>7, Zenon
    <2>3. QED
      BY <1>1, <1>6, <2>1, <2>2 DEF IInv, MailTypes
  <1>13. \A r \in Sockets : r # s => ~mailbox[r].doorbell /\ ~fw[r].owes
    BY <1>2 DEF IInv, MailOK
  <1>14. MailOK'
    <2>1. call' = "wait" /\ todo' # <<>> /\ Head2' \in Requests /\ S' = s
      BY <1>1, <1>2, <1>11
    <2>2. \A r \in Sockets : ~mailbox'[r].doorbell
      BY <1>9, <1>10, <1>13, Zenon
    <2>3. ASSUME NEW r \in Sockets, fw'[r].owes
          PROVE  S' = r /\ ~mailbox'[r].ready
      <3>1. r = s
        BY <1>6, <1>13, <2>3, Zenon
      <3>2. ~atOnce
        BY <1>8, <2>3, <3>1, Zenon
      <3>3. QED
        BY <1>9, <1>10, <2>1, <3>1, <3>2, Zenon
    <2>4. mailbox'[S'].ready => mailbox'[S'].args.from = "mpio"
      BY <1>9, <1>10, <2>1, Zenon
    <2>5. MpioArg'.from = "mpio"
      BY <1>1 DEF IInv, MailOK
    <2>6. QED
      BY <2>1, <2>2, <2>3, <2>4, <2>5 DEF MailOK
  <1>15. TakenOK'
    BY <1>2, <1>8, <1>11 DEF TakenOK
  <1>16. Posting(s)' /\ \A r \in Sockets : r # s => fw[r].op \notin Stages
    BY <1>1, <1>2, <1>9, <1>10 DEF IInv, StageOK, Posting
  <1>17. StageOK'
    BY <1>1, <1>2, <1>6, <1>8, <1>11, <1>16, Zenon DEF StageOK
  <1>18. TrainOK'
    <2>1. /\ todo \in Seq(Todo) /\ todo[1][1] = s /\ todo[1][2] = Head2 /\ 1 \in 1..Len(todo)
          /\ Len(todo) \in Nat /\ TrainsFinish(todo)
      BY <1>2, HereFacts, Zenon DEF IInv, PlanOK
    <2>2. ASSUME NEW r \in Sockets, r # s, fw[r].op = "TRAIN", NEW j \in 1..Len(todo), todo[j][1] = r,
                 ~Cleans(r, todo[j])
          PROVE  \E i \in 1..(j - 1) : Cleans(r, todo[i])
      <3>1. j # 1
        BY <2>1, <2>2
      <3>2. QED
        BY <2>2, <3>1, Zenon DEF IInv, TrainOK
    <2>3. ASSUME Head2 = "TRAIN", NEW j \in 1..Len(todo), todo[j][1] = s, ~Cleans(s, todo[j]), j # 1
          PROVE  \E i \in 1..(j - 1) : Cleans(s, todo[i])
      <3>1. 1 < j /\ todo[1][2] \in {"TRAIN", "TrainInstance"}
        BY <2>1, <2>3
      <3>2. PICK k \in (1 + 1)..(j - 1) : Cleans(s, todo[k])
        BY <2>1, <2>3, <3>1, FinishesBefore, Zenon
      <3>3. k \in 1..(j - 1)
        BY <2>1, <3>2
      <3>4. QED
        BY <3>2, <3>3, Zenon
    <2>4. Head2 = "TRAIN" => AskBuffer[s] # <<>>
      BY <1>2, Zenon DEF IInv, TrainOK
    <2>5. \A r \in Sockets : fw[r].op = "TRAIN" => AskBuffer[r] # <<>>
      BY Zenon DEF IInv, TrainOK
    <2>6. ASSUME NEW r \in Sockets, fw'[r].op = "TRAIN"
          PROVE  /\ AskBuffer'[r] # <<>>
                 /\ \A j \in 1..Len(todo') : todo'[j][1] = r /\ ~Cleans(r, todo'[j]) =>
                      \/ \E i \in 1..(j - 1) : Cleans(r, todo'[i])
                      \/ j = 1 /\ Head2' = "TRAIN" /\ Posting(r)'
      <3>1. CASE r = s
        BY <1>1, <1>8, <1>11, <1>16, <2>3, <2>4, <2>6, <3>1, Zenon
      <3>2. CASE r # s
        BY <1>1, <1>6, <2>2, <2>5, <2>6, <3>2, Zenon
      <3>3. QED
        BY <3>1, <3>2
    <2>7. QED
      BY <1>1, <1>2, <1>11, <2>4, <2>6, Zenon DEF TrainOK
  <1>19. ReleaseOK'
    <2>1. Head2 \in {"EARLY_TRAIN", "TRAIN"} => ~reset
      <3>1. 1 \in 1..Len(todo) /\ todo[1][2] = Head2 /\ ReleasedOnce(todo, reset)
        BY <1>2, HereFacts, Zenon DEF IInv, PlanOK
      <3>2. ASSUME Head2 \in {"EARLY_TRAIN", "TRAIN"}
            PROVE  ~reset \/ \E k \in 1..(1 - 1) : todo[k][2] = "GpioSlotResetControl"
        <4>1. todo[1][2] \in Trainings
          BY <3>1, <3>2 DEF Trainings
        <4>2. QED
          BY <3>1, <4>1, ReleasedBefore, Zenon
      <3>3. QED
        BY <3>2
    <2>2. ASSUME NEW r \in Sockets, HasPorts(r)', NEW x \in {"MAP", "RECONFIG", "PERST"}
          PROVE  x \in fw'[r].done \/ (reset' /\ fw'[r].op = x) \/ Ahead(r, x)'
      <3>1. HasPorts(r)
        BY <1>1, <1>6, <1>8, <2>2, Zenon DEF HasPorts
      <3>2. x \in fw[r].done \/ (reset /\ fw[r].op = x) \/ Ahead(r, x)
        BY <3>1, Zenon DEF IInv, ReleaseOK
      <3>3. Ahead(r, x)' <=> Ahead(r, x)
        BY <1>1 DEF Ahead
      <3>4. fw[s].op # x
        BY <1>2 DEF SetupLink
      <3>5. QED
        BY <1>1, <1>6, <1>8, <3>2, <3>3, <3>4, Zenon
    <2>3. \A r \in Sockets : fw[r].op \in {"EARLY_TRAIN", "TRAIN"} => ~reset
      BY Zenon DEF IInv, ReleaseOK
    <2>4. \A r \in Sockets : fw'[r].op \in {"EARLY_TRAIN", "TRAIN"} => ~reset'
      BY <1>1, <1>6, <1>8, <2>1, <2>3, Zenon
    <2>5. QED
      BY <2>2, <2>4, Zenon DEF ReleaseOK
  <1>20. SetupUndisturbed' /\ PlanOK(todo, reset)'
    BY <1>1, <1>6, <1>8, Zenon DEF IInv, SetupUndisturbed
  <1>21. QED
    BY <1>12, <1>14, <1>15, <1>17, <1>18, <1>19, <1>20, Zenon DEF IInv

LEMMA FwAnswerStep == ASSUME NEW s \in Sockets PROVE IInv /\ FwAnswer(s) => IInv'
  <1> SUFFICES ASSUME IInv, FwAnswer(s)
               PROVE  IInv'
    OBVIOUS
  <1>1. /\ mailbox[s].doorbell /\ mailbox[s].id \in Requests \ Posted
        /\ UNCHANGED <<todo, call, MpioArg, reset>>
    BY DEF FwAnswer, host
  <1>2. /\ todo # <<>> /\ S = s /\ call = "wait" /\ mailbox[s].id = Head2 /\ ~mailbox[s].ready
        /\ Head2 \in Requests /\ ~Posting(s) /\ Head2 \notin Posted
        /\ Head2 # "GET_STATUS" => fw[s].op \notin SetupLink
    BY <1>1, DoorbellFacts
  <1>3. PICK b \in BOOLEAN : b = (Head2 = "GET_STATUS" /\ fw[s].op # "none")
    BY Zenon
  <1>4. PICK ask, asks :
          /\ b = (Head2 = "GET_STATUS" /\ fw[s].op # "none")
          /\ ask = (IF Head2 = "TRANSFER_ASK" THEN AskBuffer[s] ELSE fw[s].ask)
          /\ asks = (IF Head2 = "GET_ASK_RESULT" THEN fw[s].ask ELSE AskBuffer[s])
    BY <1>3, Zenon
  <1>5. /\ DOMAIN fw = Sockets /\ mailbox \in [Sockets -> Box] /\ mailbox[s] \in Box
        /\ DOMAIN AskBuffer = Sockets
        /\ \A r \in Sockets : fw[r] = [op |-> fw[r].op, owes |-> fw[r].owes, disturbed |-> fw[r].disturbed,
                                       done |-> fw[r].done, ask |-> fw[r].ask]
    BY DEF IInv, MailTypes
  <1>6. PICK f : f = fw[s]
    BY Zenon
  <1>7. /\ f = [op |-> f.op, owes |-> f.owes, disturbed |-> f.disturbed, done |-> f.done, ask |-> f.ask]
        /\ ~f.disturbed
    BY <1>5, <1>6, Zenon DEF IInv, SetupUndisturbed
  <1>8. Heard(f, Head2) = [f EXCEPT !.disturbed = f.disturbed \/ FALSE]
    BY <1>2, <1>6, <1>7 DEF Heard
  <1>9. /\ mailbox' = [mailbox EXCEPT ![s] = Answered(mailbox[s], b)]
        /\ AskBuffer' = [AskBuffer EXCEPT ![s] = asks]
        /\ fw' = [fw EXCEPT ![s] = [Heard(f, Head2) EXCEPT !.ask = ask]]
    <2>1. mailbox' = [mailbox EXCEPT ![s] = Answered(mailbox[s], b)]
      BY <1>2, <1>4 DEF FwAnswer
    <2>2. AskBuffer' = [AskBuffer EXCEPT ![s] = asks]
      BY <1>2, <1>4 DEF FwAnswer
    <2>3. fw' = [fw EXCEPT ![s] = [Heard(f, Head2) EXCEPT !.ask = ask]]
      <3>1. PICK msg : msg = mailbox[s].id
        BY Zenon
      <3>2. PICK h : h = Heard(fw[s], msg)
        BY Zenon
      <3>3. PICK new : new = IF msg = "TRANSFER_ASK" THEN AskBuffer[s] ELSE h.ask
        BY Zenon
      <3>4. fw' = [fw EXCEPT ![s] = [h EXCEPT !.ask = new]]
        <4>1. fw' = [fw EXCEPT ![s] = [Heard(fw[s], msg) EXCEPT
                       !.ask = IF msg = "TRANSFER_ASK" THEN AskBuffer[s] ELSE @]]
          BY <3>1, Zenon DEF FwAnswer
        <4>2. fw' = [fw EXCEPT ![s] = [h EXCEPT
                       !.ask = IF msg = "TRANSFER_ASK" THEN AskBuffer[s] ELSE @]]
          BY <4>1, <3>2
        <4>3. fw' = [fw EXCEPT ![s] = [h EXCEPT
                       !.ask = IF msg = "TRANSFER_ASK" THEN AskBuffer[s] ELSE h.ask]]
          BY <4>2
        <4>4. QED
          BY <3>3, <4>3
      <3>5. msg = Head2
        BY <1>2, <3>1
      <3>6. h = Heard(f, Head2)
        BY <1>6, <3>2, <3>5, Zenon
      <3>7. h.ask = f.ask
        BY <1>7, <1>8, <3>6
      <3>8. new = ask
        BY <1>4, <1>6, <3>3, <3>5, <3>7
      <3>9. QED
        BY <3>4, <3>6, <3>8, Zenon
    <2>4. QED
      BY <2>1, <2>2, <2>3, Zenon
  <1>10. PICK d : d = (f.disturbed \/ FALSE)
    BY Zenon
  <1>11. [Heard(f, Head2) EXCEPT !.ask = ask]
         = [op |-> f.op, owes |-> f.owes, disturbed |-> d, done |-> f.done, ask |-> ask]
    <2>1. PICK h : h = [op |-> f.op, owes |-> f.owes, disturbed |-> d, done |-> f.done, ask |-> f.ask]
      BY Zenon
    <2>2. Heard(f, Head2) = [f EXCEPT !.disturbed = d]
      BY <1>8, <1>10, Zenon
    <2>3. [f EXCEPT !.disturbed = d] = h
      BY <1>7, <2>1
    <2>4. [h EXCEPT !.ask = ask]
          = [op |-> f.op, owes |-> f.owes, disturbed |-> d, done |-> f.done, ask |-> ask]
      BY <2>1
    <2>5. QED
      BY <2>2, <2>3, <2>4, Zenon
  <1>12. /\ DOMAIN fw' = Sockets /\ \A r \in Sockets : r # s => fw'[r] = fw[r]
         /\ fw'[s] = [op |-> f.op, owes |-> f.owes, disturbed |-> d, done |-> f.done, ask |-> ask]
    BY <1>5, <1>9, <1>11
  <1>13. /\ fw'[s].op = fw[s].op /\ fw'[s].owes = fw[s].owes /\ fw'[s].disturbed = d
         /\ fw'[s].done = fw[s].done /\ fw'[s].ask = ask
    BY <1>6, <1>12
  <1>14. PICK m \in Box : /\ mailbox' = [mailbox EXCEPT ![s] = m] /\ ~m.doorbell /\ m.ready
                          /\ m.args.from = "mpio" /\ m.args.busy = b
    <2>1. Answered(mailbox[s], b) \in Box
      BY <1>5, Zenon DEF Answered, Box, Answer
    <2>2. /\ ~Answered(mailbox[s], b).doorbell /\ Answered(mailbox[s], b).ready
          /\ Answered(mailbox[s], b).args.from = "mpio" /\ Answered(mailbox[s], b).args.busy = b
      BY <1>5 DEF Answered, Box
    <2>3. QED
      BY <1>9, <2>1, <2>2, Zenon
  <1>15. /\ mailbox'[s] = m /\ \A r \in Sockets : r # s => mailbox'[r] = mailbox[r]
         /\ DOMAIN AskBuffer' = Sockets /\ AskBuffer'[s] = asks
         /\ \A r \in Sockets : r # s => AskBuffer'[r] = AskBuffer[r]
    BY <1>5, <1>9, <1>14
  <1>16. S' = S /\ Head2' = Head2
    BY <1>1 DEF S, Head2
  <1>17. MailTypes'
    <2>1. mailbox' \in [Sockets -> Box]
      BY <1>5, <1>14, Zenon
    <2>2. \A r \in Sockets : fw'[r] = [op |-> fw'[r].op, owes |-> fw'[r].owes, disturbed |-> fw'[r].disturbed,
                                       done |-> fw'[r].done, ask |-> fw'[r].ask]
      BY <1>5, <1>6, <1>12, <1>13, Zenon
    <2>3. QED
      BY <1>1, <1>12, <1>15, <2>1, <2>2 DEF IInv, MailTypes
  <1>18. \A r \in Sockets : ~fw[r].owes /\ (r # s => ~mailbox[r].doorbell)
    BY <1>1, <1>2 DEF IInv, MailOK
  <1>19. \A r \in Sockets : ~fw'[r].owes /\ ~mailbox'[r].doorbell
    <2>1. ASSUME NEW r \in Sockets
          PROVE  ~fw'[r].owes /\ ~mailbox'[r].doorbell
      <3>1. CASE r = s
        BY <1>13, <1>14, <1>15, <1>18, <3>1, ZenonT(40)
      <3>2. CASE r # s
        BY <1>12, <1>15, <1>18, <3>2, Zenon
      <3>3. QED
        BY <3>1, <3>2
    <2>2. QED
      BY <2>1
  <1>20. MailOK'
    <2>1. call' = "wait" /\ todo' # <<>> /\ Head2' \in Requests /\ S' = s /\ mailbox'[S'].args.from = "mpio"
      BY <1>1, <1>2, <1>14, <1>15, <1>16
    <2>2. MpioArg'.from = "mpio"
      BY <1>1 DEF IInv, MailOK
    <2>3. QED
      BY <1>19, <2>1, <2>2 DEF MailOK
  <1>21. TakenOK'
    <2>1. Head2 = "GET_STATUS" /\ ~m.args.busy => fw[s].op = "none"
      BY <1>4, <1>14, Zenon
    <2>2. QED
      BY <1>2, <1>13, <1>15, <1>16, <2>1 DEF TakenOK
  <1>22. StageOK'
    <2>1. ASSUME NEW r \in Sockets, fw'[r].op \in Stages
          PROVE  todo' # <<>> /\ S' = r /\ Head2' = "GET_STATUS"
      <3>1. fw[r].op \in Stages
        BY <1>12, <1>13, <2>1, Zenon
      <3>2. S = r /\ (Head2 = "GET_STATUS" \/ (Head2 = fw[r].op /\ Posting(r)))
        BY <3>1, Zenon DEF IInv, StageOK
      <3>3. Head2 = "GET_STATUS"
        BY <1>2, <3>2, Zenon
      <3>4. QED
        BY <1>1, <1>2, <1>16, <3>2, <3>3
    <2>2. QED
      BY <2>1, Zenon DEF StageOK
  <1>23. TrainOK'
    <2>1. Head2 # "TRAIN" /\ Head2' # "TRAIN"
      BY <1>2, <1>16 DEF Posted, SetupLink
    <2>2. ASSUME NEW r \in Sockets, fw'[r].op = "TRAIN"
          PROVE  /\ AskBuffer'[r] # <<>>
                 /\ \A j \in 1..Len(todo') : todo'[j][1] = r /\ ~Cleans(r, todo'[j]) =>
                      \E i \in 1..(j - 1) : Cleans(r, todo'[i])
      <3>1. fw[r].op = "TRAIN"
        BY <1>12, <1>13, <2>2, Zenon
      <3>2. /\ AskBuffer[r] # <<>>
            /\ \A j \in 1..Len(todo) : todo[j][1] = r /\ ~Cleans(r, todo[j]) =>
                 \E i \in 1..(j - 1) : Cleans(r, todo[i])
        BY <2>1, <3>1, Zenon DEF IInv, TrainOK
      <3>3. r = s => Head2 # "GET_ASK_RESULT"
        BY <1>2, <3>1 DEF SetupLink
      <3>4. AskBuffer'[r] # <<>>
        BY <1>4, <1>15, <3>2, <3>3
      <3>5. QED
        BY <1>1, <3>2, <3>4
    <2>3. QED
      BY <2>1, <2>2, Zenon DEF TrainOK
  <1>24. ReleaseOK'
    <2>1. ASSUME NEW r \in Sockets, HasPorts(r)', NEW x \in {"MAP", "RECONFIG", "PERST"}
          PROVE  x \in fw'[r].done \/ (reset' /\ fw'[r].op = x) \/ Ahead(r, x)'
      <3>1. HasPorts(r)
        <4>1. CASE r = s
          BY <1>4, <1>13, <1>15, <2>1, <4>1 DEF HasPorts
        <4>2. CASE r # s
          BY <1>12, <1>15, <2>1, <4>2 DEF HasPorts
        <4>3. QED
          BY <4>1, <4>2
      <3>2. x \in fw[r].done \/ (reset /\ fw[r].op = x) \/ Ahead(r, x)
        BY <3>1, Zenon DEF IInv, ReleaseOK
      <3>3. Ahead(r, x)' <=> Ahead(r, x)
        BY <1>1 DEF Ahead
      <3>4. QED
        BY <1>1, <1>12, <1>13, <3>2, <3>3, Zenon
    <2>2. \A r \in Sockets : fw[r].op \in {"EARLY_TRAIN", "TRAIN"} => ~reset
      BY Zenon DEF IInv, ReleaseOK
    <2>3. \A r \in Sockets : fw'[r].op \in {"EARLY_TRAIN", "TRAIN"} => ~reset'
      BY <1>1, <1>12, <1>13, <2>2, Zenon
    <2>4. QED
      BY <2>1, <2>3, Zenon DEF ReleaseOK
  <1>25. SetupUndisturbed' /\ PlanOK(todo, reset)'
    <2>1. ~d
      BY <1>7, <1>10, Zenon
    <2>2. QED
      BY <1>1, <1>12, <1>13, <2>1, Zenon DEF IInv, SetupUndisturbed
  <1>26. QED
    BY <1>17, <1>20, <1>21, <1>22, <1>23, <1>24, <1>25, Zenon DEF IInv

LEMMA FwFinishStep == ASSUME NEW s \in Sockets PROVE IInv /\ FwFinish(s) => IInv'
  <1> SUFFICES ASSUME IInv, FwFinish(s)
               PROVE  IInv'
    OBVIOUS
  <1>1. fw[s].op # "none" /\ UNCHANGED <<todo, call, MpioArg, AskBuffer, reset>>
    BY DEF FwFinish, flow
  <1>2. PICK f : f = fw[s]
    BY Zenon
  <1>3. /\ DOMAIN fw = Sockets /\ mailbox \in [Sockets -> Box] /\ mailbox[s] \in Box
        /\ \A r \in Sockets : fw[r] = [op |-> fw[r].op, owes |-> fw[r].owes, disturbed |-> fw[r].disturbed,
                                       done |-> fw[r].done, ask |-> fw[r].ask]
    BY DEF IInv, MailTypes
  <1>4. PICK done : done = f.done \cup {f.op}
    BY Zenon
  <1>5. PICK T : T = UNION {Outcomes(f, f.ask[i]) : i \in DOMAIN f.ask}
    BY Zenon
  <1>6. PICK ask \in [DOMAIN f.ask -> T] :
          fw' = [fw EXCEPT ![s] = [op |-> "none", owes |-> FALSE, disturbed |-> f.disturbed,
                                   done |-> done, ask |-> ask]]
    <2>1. PICK ask \in [DOMAIN fw[s].ask -> UNION {Outcomes(fw[s], fw[s].ask[i]) : i \in DOMAIN fw[s].ask}] :
            fw' = [fw EXCEPT ![s] = [op |-> "none", owes |-> FALSE, disturbed |-> fw[s].disturbed,
                                     done |-> fw[s].done \cup {fw[s].op}, ask |-> ask]]
      BY Zenon DEF FwFinish
    <2>2. QED
      BY <1>2, <1>4, <1>5, <2>1, Zenon
  <1>7. f.ask = <<>> => ask = <<>>
    BY <1>6
  <1>8. /\ DOMAIN fw' = Sockets /\ \A r \in Sockets : r # s => fw'[r] = fw[r]
        /\ fw'[s] = [op |-> "none", owes |-> FALSE, disturbed |-> f.disturbed, done |-> done, ask |-> ask]
    BY <1>3, <1>6
  <1>9. /\ fw'[s].op = "none" /\ ~fw'[s].owes /\ fw'[s].disturbed = fw[s].disturbed
         /\ fw'[s].done = done /\ fw'[s].ask = ask
    BY <1>2, <1>8
  <1>10. fw[s].owes => todo # <<>> /\ S = s /\ call = "wait" /\ ~mailbox[s].doorbell
    BY Zenon DEF IInv, MailOK
  <1>11. PICK m \in Box : /\ mailbox' = [mailbox EXCEPT ![s] = m] /\ m.doorbell = mailbox[s].doorbell
                          /\ (fw[s].owes => m.args.from = "mpio") /\ (~fw[s].owes => m = mailbox[s])
    <2>1. CASE fw[s].owes
      <3>1. Answered(mailbox[s], FALSE) \in Box
        BY <1>3, Zenon DEF Answered, Box, Answer
      <3>2. Answered(mailbox[s], FALSE).doorbell = FALSE /\ Answered(mailbox[s], FALSE).args.from = "mpio"
        BY <1>3 DEF Answered, Box
      <3>3. mailbox[s].doorbell = FALSE
        BY <1>3, <1>10, <2>1 DEF Box
      <3>4. mailbox' = [mailbox EXCEPT ![s] = Answered(mailbox[s], FALSE)]
        BY <2>1, Zenon DEF FwFinish
      <3>5. QED
        BY <2>1, <3>1, <3>2, <3>3, <3>4, Zenon
    <2>2. CASE ~fw[s].owes
      <3>1. mailbox' = [mailbox EXCEPT ![s] = mailbox[s]]
        BY <2>2, Zenon DEF FwFinish
      <3>2. QED
        BY <1>3, <2>2, <3>1, Zenon
    <2>3. QED
      BY <2>1, <2>2
  <1>12. /\ mailbox'[s] = m /\ \A r \in Sockets : r # s => mailbox'[r] = mailbox[r]
    BY <1>3, <1>11
  <1>13. \A r \in Sockets : mailbox'[r].doorbell = mailbox[r].doorbell
    BY <1>11, <1>12, Zenon
  <1>14. S' = S /\ Head2' = Head2 /\ (todo # <<>> => S \in Sockets)
    BY <1>1, HereFacts DEF S, Head2, IInv
  <1>15. MailTypes'
    <2>1. mailbox' \in [Sockets -> Box]
      BY <1>3, <1>11, Zenon
    <2>2. \A r \in Sockets : fw'[r] = [op |-> fw'[r].op, owes |-> fw'[r].owes, disturbed |-> fw'[r].disturbed,
                                       done |-> fw'[r].done, ask |-> fw'[r].ask]
      <3>1. fw'[s] = [op |-> fw'[s].op, owes |-> fw'[s].owes, disturbed |-> fw'[s].disturbed,
                      done |-> fw'[s].done, ask |-> fw'[s].ask]
        BY <1>8
      <3>2. QED
        BY <1>3, <1>8, <3>1, Zenon
    <2>3. QED
      BY <1>1, <1>8, <2>1, <2>2 DEF IInv, MailTypes
  <1>16. MailOK'
    <2>1. call' # "none" => todo' # <<>> /\ Head2' \in Requests
      BY <1>1, <1>14 DEF IInv, MailOK
    <2>2. call' = "id" => ~mailbox'[S'].ready /\ mailbox'[S'].id = Head2'
      <3>1. ASSUME call = "id"
            PROVE  S \in Sockets /\ ~mailbox[S].ready /\ mailbox[S].id = Head2 /\ ~fw[s].owes
        BY <1>10, <1>14, <3>1 DEF IInv, MailOK
      <3>2. QED
        BY <1>1, <1>11, <1>12, <1>14, <3>1
    <2>3. ASSUME NEW r \in Sockets, mailbox'[r].doorbell
          PROVE  todo' # <<>> /\ S' = r /\ call' = "wait" /\ mailbox'[r].id = Head2' /\ ~mailbox'[r].ready
      <3>1. todo # <<>> /\ S = r /\ call = "wait" /\ mailbox[r].id = Head2 /\ ~mailbox[r].ready
        BY <1>13, <2>3, Zenon DEF IInv, MailOK
      <3>2. mailbox'[r] = mailbox[r]
        <4>1. r = s => ~fw[s].owes
          BY <1>10, <1>13, <2>3, Zenon
        <4>2. QED
          BY <1>11, <1>12, <4>1, Zenon
      <3>3. QED
        BY <1>1, <1>14, <3>1, <3>2
    <2>4. ASSUME NEW r \in Sockets, fw'[r].owes
          PROVE  todo' # <<>> /\ S' = r /\ call' = "wait" /\ ~mailbox'[r].doorbell /\ ~mailbox'[r].ready
      <3>1. r # s /\ fw[r].owes /\ mailbox'[r] = mailbox[r]
        BY <1>8, <1>9, <1>12, <2>4, Zenon
      <3>2. todo # <<>> /\ S = r /\ call = "wait" /\ ~mailbox[r].doorbell /\ ~mailbox[r].ready
        BY <3>1, Zenon DEF IInv, MailOK
      <3>3. QED
        BY <1>1, <1>14, <3>1, <3>2
    <2>5. ASSUME call' = "wait", mailbox'[S'].ready
          PROVE  mailbox'[S'].args.from = "mpio"
      <3>1. call = "wait" /\ S \in Sockets /\ mailbox'[S].ready
        BY <1>1, <1>14, <2>1, <2>5
      <3>2. CASE S = s /\ fw[s].owes
        BY <1>11, <1>12, <1>14, <3>2
      <3>3. CASE S # s \/ ~fw[s].owes
        <4>1. mailbox'[S] = mailbox[S]
          BY <1>11, <1>12, <3>1, <3>3, Zenon
        <4>2. mailbox[S].args.from = "mpio"
          BY <3>1, <4>1 DEF IInv, MailOK
        <4>3. QED
          BY <1>14, <4>1, <4>2
      <3>4. QED
        BY <3>2, <3>3, Zenon
    <2>6. MpioArg'.from = "mpio"
      BY <1>1 DEF IInv, MailOK
    <2>7. QED
      BY <2>1, <2>2, <2>3, <2>4, <2>5, <2>6, Zenon DEF MailOK  <1>17. TakenOK'
    <2>1. SUFFICES ASSUME call' = "wait", ~mailbox'[S'].doorbell
                   PROVE  /\ Head2' = "GET_STATUS" /\ ~mailbox'[S'].args.busy => fw'[S'].op = "none"
                          /\ Head2' \in Posted => fw'[S'].op = Head2' \/ Head2' \in fw'[S'].done
      BY Zenon DEF TakenOK
    <2>2. call = "wait" /\ todo # <<>> /\ S \in Sockets /\ ~mailbox[S].doorbell
      <3>1. call = "wait" /\ todo # <<>>
        BY <1>1, <2>1 DEF IInv, MailOK
      <3>2. QED
        BY <1>13, <1>14, <2>1, <3>1
    <2>3. /\ Head2 = "GET_STATUS" /\ ~mailbox[S].args.busy => fw[S].op = "none"
          /\ Head2 \in Posted => fw[S].op = Head2 \/ Head2 \in fw[S].done
      BY <2>2, Zenon DEF IInv, TakenOK
    <2>4. CASE S = s
      BY <1>2, <1>4, <1>9, <1>14, <2>3, <2>4
    <2>5. CASE S # s
      BY <1>8, <1>12, <1>14, <2>2, <2>3, <2>5
    <2>6. QED
      BY <2>4, <2>5, Zenon
  <1>18. \A r \in Sockets : Posting(r)' <=> Posting(r)
    BY <1>1, <1>13 DEF Posting
  <1>19. StageOK'
    <2>1. ASSUME NEW r \in Sockets, fw'[r].op \in Stages
          PROVE  todo' # <<>> /\ S' = r /\ (Head2' = "GET_STATUS" \/ (Head2' = fw'[r].op /\ Posting(r)'))
      <3>1. r # s
        BY <1>9, <2>1 DEF Stages, SetupLink
      <3>2. fw'[r] = fw[r]
        BY <1>8, <3>1, Zenon
      <3>3. todo # <<>> /\ S = r /\ (Head2 = "GET_STATUS" \/ (Head2 = fw[r].op /\ Posting(r)))
        BY <2>1, <3>2, Zenon DEF IInv, StageOK
      <3>4. QED
        BY <1>1, <1>14, <1>18, <3>2, <3>3
    <2>2. QED
      BY <2>1, Zenon DEF StageOK
  <1>20. TrainOK'
    <2>1. todo' # <<>> /\ Head2' = "TRAIN" => AskBuffer'[S'] # <<>>
      BY <1>1, <1>14 DEF IInv, TrainOK
    <2>2. ASSUME NEW r \in Sockets, fw'[r].op = "TRAIN"
          PROVE  /\ AskBuffer'[r] # <<>>
                 /\ \A j \in 1..Len(todo') : todo'[j][1] = r /\ ~Cleans(r, todo'[j]) =>
                      \/ \E i \in 1..(j - 1) : Cleans(r, todo'[i])
                      \/ j = 1 /\ Head2' = "TRAIN" /\ Posting(r)'
      <3>1. r # s
        BY <1>9, <2>2
      <3>2. fw[r].op = "TRAIN"
        BY <1>8, <2>2, <3>1, Zenon
      <3>3. /\ AskBuffer[r] # <<>>
            /\ \A j \in 1..Len(todo) : todo[j][1] = r /\ ~Cleans(r, todo[j]) =>
                 \/ \E i \in 1..(j - 1) : Cleans(r, todo[i])
                 \/ j = 1 /\ Head2 = "TRAIN" /\ Posting(r)
        BY <3>2, Zenon DEF IInv, TrainOK
      <3>4. QED
        BY <1>1, <1>14, <1>18, <3>3
    <2>3. QED
      BY <2>1, <2>2, Zenon DEF TrainOK
  <1>21. ReleaseOK'
    <2>1. ASSUME NEW r \in Sockets, HasPorts(r)', NEW x \in {"MAP", "RECONFIG", "PERST"}
          PROVE  x \in fw'[r].done \/ (reset' /\ fw'[r].op = x) \/ Ahead(r, x)'
      <3>1. HasPorts(r)
        <4>1. CASE r = s
          BY <1>1, <1>2, <1>7, <1>9, <2>1, <4>1 DEF HasPorts
        <4>2. CASE r # s
          BY <1>1, <1>8, <2>1, <4>2 DEF HasPorts
        <4>3. QED
          BY <4>1, <4>2
      <3>2. x \in fw[r].done \/ (reset /\ fw[r].op = x) \/ Ahead(r, x)
        BY <3>1, Zenon DEF IInv, ReleaseOK
      <3>3. Ahead(r, x)' <=> Ahead(r, x)
        BY <1>1 DEF Ahead
      <3>4. CASE r = s
        <4>1. fw[s].op = x \/ x \in fw[s].done => x \in done
          BY <1>2, <1>4
        <4>2. QED
          BY <1>9, <3>2, <3>3, <3>4, <4>1, Zenon
      <3>5. CASE r # s
        BY <1>1, <1>8, <3>2, <3>3, <3>5, Zenon
      <3>6. QED
        BY <3>4, <3>5
    <2>2. ASSUME NEW r \in Sockets, fw'[r].op \in {"EARLY_TRAIN", "TRAIN"}
          PROVE  ~reset'
      <3>1. r # s
        BY <1>9, <2>2
      <3>2. fw[r].op \in {"EARLY_TRAIN", "TRAIN"}
        BY <1>8, <2>2, <3>1, Zenon
      <3>3. QED
        BY <1>1, <3>2 DEF IInv, ReleaseOK
    <2>3. QED
      BY <2>1, <2>2, Zenon DEF ReleaseOK
  <1>22. SetupUndisturbed' /\ PlanOK(todo, reset)'
    BY <1>1, <1>8, <1>9, Zenon DEF IInv, SetupUndisturbed
  <1>23. QED
    BY <1>15, <1>16, <1>17, <1>19, <1>20, <1>21, <1>22, Zenon DEF IInv

-----------------------------------------------------------------------------
(* Sequences                                                               *)

LEMMA ConcatFacts ==
  ASSUME NEW T, NEW a \in Seq(T), NEW b \in Seq(T)
  PROVE  /\ a \o b \in Seq(T) /\ Len(a \o b) = Len(a) + Len(b)
         /\ Len(a) \in Nat /\ Len(b) \in Nat
         /\ \A i \in 1..Len(a) : (a \o b)[i] = a[i]
         /\ \A i \in 1..Len(b) : (a \o b)[Len(a) + i] = b[i]
         /\ \A i \in 1..(Len(a) + Len(b)) : i > Len(a) =>
              i - Len(a) \in 1..Len(b) /\ (a \o b)[i] = b[i - Len(a)]
  OBVIOUS

LEMMA ThreeFacts ==
  ASSUME NEW T, NEW a \in Seq(T), NEW b \in Seq(T)
  PROVE  Len(a) = 1 /\ Len(b) = 2 =>
           /\ a \o b \in Seq(T) /\ Len(a \o b) = 3
           /\ (a \o b)[1] = a[1] /\ (a \o b)[2] = b[1] /\ (a \o b)[3] = b[2]
  <1> DEFINE c == a \o b
  <1>1. /\ c \in Seq(T) /\ Len(c) = Len(a) + Len(b)
        /\ \A i \in 1..Len(a) : c[i] = a[i]
        /\ \A i \in 1..Len(b) : c[Len(a) + i] = b[i]
    BY ConcatFacts
  <1> HIDE DEF c
  <1>2. SUFFICES ASSUME Len(a) = 1, Len(b) = 2
                 PROVE  /\ c \in Seq(T) /\ Len(c) = 3
                        /\ c[1] = a[1] /\ c[2] = b[1] /\ c[3] = b[2]
    BY DEF c
  <1>3. c[1 + 1] = b[1] /\ c[1 + 2] = b[2] /\ c[1] = a[1]
    BY <1>1, <1>2
  <1>4. QED
    BY <1>1, <1>2, <1>3

LEMMA TailFacts ==
  ASSUME NEW T, NEW t \in Seq(T), t # <<>>
  PROVE  /\ Len(t) \in Nat /\ Len(t) >= 1 /\ t[1] = Head(t) /\ t[1] \in T
         /\ Tail(t) \in Seq(T) /\ Len(Tail(t)) = Len(t) - 1
         /\ \A i \in 1..(Len(t) - 1) : Tail(t)[i] = t[i + 1]
  OBVIOUS

\* The steps c of a function take the place of the head of t.
LEMMA EnterFacts ==
  ASSUME NEW T, NEW t \in Seq(T), t # <<>>, NEW c \in Seq(T),
         NEW u, u = c \o Tail(t)
  PROVE  /\ u \in Seq(T) /\ Len(t) \in Nat /\ Len(c) \in Nat /\ Len(u) = Len(c) + Len(t) - 1
         /\ \A i \in 1..Len(c) : i \in 1..Len(u) /\ u[i] = c[i]
         /\ \A i \in 2..Len(t) : i + Len(c) - 1 \in 1..Len(u) /\ u[i + Len(c) - 1] = t[i]
         /\ \A i \in 1..Len(u) : i > Len(c) =>
              i - Len(c) + 1 \in 2..Len(t) /\ u[i] = t[i - Len(c) + 1]
  <1>1. /\ Len(t) \in Nat /\ Len(t) >= 1 /\ Tail(t) \in Seq(T) /\ Len(Tail(t)) = Len(t) - 1
        /\ \A i \in 1..(Len(t) - 1) : Tail(t)[i] = t[i + 1]
    BY TailFacts
  <1>2. /\ u \in Seq(T) /\ Len(c) \in Nat /\ Len(u) = Len(c) + Len(Tail(t))
        /\ \A i \in 1..Len(c) : u[i] = c[i]
        /\ \A i \in 1..Len(Tail(t)) : u[Len(c) + i] = Tail(t)[i]
        /\ \A i \in 1..(Len(c) + Len(Tail(t))) : i > Len(c) =>
             i - Len(c) \in 1..Len(Tail(t)) /\ u[i] = Tail(t)[i - Len(c)]
    BY <1>1, ConcatFacts
  <1>3. ASSUME NEW i \in 2..Len(t)
        PROVE  i + Len(c) - 1 \in 1..Len(u) /\ u[i + Len(c) - 1] = t[i]
    <2>1. i - 1 \in 1..Len(Tail(t)) /\ Len(c) + (i - 1) = i + Len(c) - 1 /\ (i - 1) + 1 = i
      BY <1>1, <1>2
    <2>2. u[Len(c) + (i - 1)] = Tail(t)[i - 1] /\ Tail(t)[i - 1] = t[(i - 1) + 1]
      BY <1>1, <1>2, <2>1
    <2>3. QED
      BY <1>1, <1>2, <2>1, <2>2
  <1>4. ASSUME NEW i \in 1..Len(u), i > Len(c)
        PROVE  i - Len(c) + 1 \in 2..Len(t) /\ u[i] = t[i - Len(c) + 1]
    BY <1>1, <1>2, <1>4
  <1>5. QED
    BY <1>1, <1>2, <1>3, <1>4

\* The same as a predicate of its own.
Entered(c, t, u) ==
  /\ u \in Seq(Todo) /\ Len(c) \in Nat /\ Len(u) = Len(c) + Len(t) - 1
  /\ \A i \in 1..Len(c) : i \in 1..Len(u) /\ u[i] = c[i]
  /\ \A i \in 2..Len(t) : i + Len(c) - 1 \in 1..Len(u) /\ u[i + Len(c) - 1] = t[i]
  /\ \A i \in 1..Len(u) : i > Len(c) =>
       i - Len(c) + 1 \in 2..Len(t) /\ u[i] = t[i - Len(c) + 1]

LEMMA Entering ==
  ASSUME NEW t \in Seq(Todo), t # <<>>, NEW c \in Seq(Todo), NEW u, u = c \o Tail(t)
  PROVE  Entered(c, t, u)
  BY EnterFacts DEF Entered

\* Leaving a step is entering no steps.
LEMMA LeaveEnters ==
  ASSUME NEW T, NEW t \in Seq(T), t # <<>>
  PROVE  <<>> \in Seq(T) /\ Tail(t) = <<>> \o Tail(t)
  OBVIOUS

-----------------------------------------------------------------------------
(* The plan                                                                *)

\* Steps that may take the place of the head of t without disturbing the plan.
Replaces(c, t, r) ==
  /\ c \in Seq(Todo) /\ StagesWait(c)
  /\ \A i \in 1..Len(c) :
       /\ c[i][1] = t[1][1]
       /\ c[i][2] \notin {"GpioSlotResetControl", "ParsePlatformTopology", "EarlyLink",
                          "TrainInstance", "FinishInstance"}
       /\ c[i][2] = "TRAIN" => Len(c) = 1 /\ t[1][2] = "TrainInstance"
       /\ c[i][2] \in {"EARLY_TRAIN", "TRAIN"} => ~r
  /\ t[1][2] # "GpioSlotResetControl"

LEMMA PlanStep ==
  ASSUME NEW t, NEW r \in BOOLEAN, NEW c, NEW u,
         PlanOK(t, r), t # <<>>, Replaces(c, t, r), u = c \o Tail(t)
  PROVE  PlanOK(u, r)
  <1> DEFINE n == Len(c)
  <1>1. t \in Seq(Todo) /\ c \in Seq(Todo)
    BY DEF PlanOK, Replaces
  <1>2. /\ u \in Seq(Todo) /\ Len(t) \in Nat /\ n \in Nat /\ Len(u) = n + Len(t) - 1
        /\ \A i \in 1..n : i \in 1..Len(u) /\ u[i] = c[i]
        /\ \A i \in 2..Len(t) : i + n - 1 \in 1..Len(u) /\ u[i + n - 1] = t[i]
        /\ \A i \in 1..Len(u) : i > n => i - n + 1 \in 2..Len(t) /\ u[i] = t[i - n + 1]
    BY <1>1, EnterFacts
  <1> HIDE DEF n
  <1>3. StagesWait(u)
    <2> SUFFICES ASSUME NEW i \in 1..Len(u), u[i][2] \in Stages
                 PROVE  i + 1 \in 1..Len(u) /\ u[i + 1] = <<u[i][1], "GET_STATUS">>
      BY Zenon DEF StagesWait
    <2>1. CASE i <= n
      <3>1. i \in 1..n /\ u[i] = c[i]
        BY <1>2, <2>1
      <3>2. i + 1 \in 1..n /\ c[i + 1] = <<c[i][1], "GET_STATUS">>
        BY <3>1 DEF Replaces, StagesWait, n
      <3>3. QED
        BY <1>2, <3>1, <3>2, Zenon
    <2>2. CASE i > n
      <3>1. PICK p \in 2..Len(t) : p = i - n + 1 /\ u[i] = t[p]
        BY <1>2, <2>2, Zenon
      <3>2. p + 1 \in 1..Len(t) /\ t[p + 1] = <<t[p][1], "GET_STATUS">>
        <4>1. p \in 1..Len(t) /\ t[p][2] \in Stages
          BY <1>2, <3>1
        <4>2. QED
          BY <4>1 DEF PlanOK, StagesWait
      <3>3. p + 1 \in 2..Len(t) /\ (p + 1) + n - 1 = i + 1
        BY <1>2, <3>1, <3>2
      <3>4. QED
        BY <1>2, <3>1, <3>2, <3>3, ZenonT(40)
    <2>3. QED
      BY <1>2, <2>1, <2>2
  <1>4. TrainsFinish(u)
    <2>1. ASSUME NEW i \in 1..Len(u), u[i][2] = "TRAIN"
          PROVE  i = 1 /\ n = 1 /\ t[1][2] = "TrainInstance" /\ u[1] = c[1] /\ c[1][1] = t[1][1]
      <3>1. CASE i <= n
        BY <1>2, <2>1, <3>1 DEF Replaces, n
      <3>2. CASE i > n
        BY <1>2, <2>1, <3>2 DEF PlanOK, TrainsFinish
      <3>3. QED
        BY <1>2, <3>1, <3>2
    <2>2. ASSUME NEW i \in 1..Len(u), NEW j \in 1..Len(u), i < j,
                 u[i][2] \in {"TRAIN", "TrainInstance"}, u[j][1] = u[i][1], ~Cleans(u[i][1], u[j])
          PROVE  \E k \in (i + 1)..(j - 1) : Cleans(u[i][1], u[k])
      <3>1. PICK p \in 1..Len(t), q \in 2..Len(t) :
              /\ p = i - n + 1 /\ t[p][1] = u[i][1] /\ t[p][2] \in {"TRAIN", "TrainInstance"}
              /\ q = j - n + 1 /\ u[j] = t[q] /\ p < q
        <4>1. CASE i <= n
          <5>1. u[i][2] = "TRAIN"
            BY <1>2, <2>2, <4>1 DEF Replaces, n
          <5>2. i = 1 /\ n = 1 /\ t[1][2] = "TrainInstance" /\ u[1][1] = t[1][1]
            BY <2>1, <5>1
          <5>3. 1 \in 1..Len(t) /\ 1 = i - n + 1 /\ j - n + 1 \in 2..Len(t) /\ u[j] = t[j - n + 1]
                /\ 1 < j - n + 1
            BY <1>2, <2>2, <5>2, SMTT(30)
          <5>4. QED
            BY <5>2, <5>3, Zenon
        <4>2. CASE i > n
          <5>1. i > n /\ j > n
            BY <1>2, <2>2, <4>2, SMTT(30)
          <5>2. /\ i - n + 1 \in 2..Len(t) /\ u[i] = t[i - n + 1]
                /\ j - n + 1 \in 2..Len(t) /\ u[j] = t[j - n + 1]
            BY <1>2, <5>1, Zenon
          <5>3. i - n + 1 \in 1..Len(t) /\ i - n + 1 < j - n + 1
            BY <1>2, <2>2, <5>2
          <5>4. QED
            BY <2>2, <5>2, <5>3, Zenon
        <4>3. i <= n \/ i > n
          BY <1>2
        <4>4. QED
          BY <4>1, <4>2, <4>3, Zenon
      <3>2. PICK k \in (p + 1)..(q - 1) : Cleans(t[p][1], t[k])
        <4>1. q \in 1..Len(t)
          BY <1>2, <3>1
        <4>2. t[q][1] = t[p][1] /\ ~Cleans(t[p][1], t[q])
          BY <2>2, <3>1, Zenon
        <4>3. TrainsFinish(t)
          BY Zenon DEF PlanOK
        <4>4. QED
          BY <3>1, <4>1, <4>2, <4>3, FinishesBefore, Zenon
      <3>3. k \in 2..Len(t) /\ k + n - 1 \in (i + 1)..(j - 1) /\ u[k + n - 1] = t[k]
        <4>1. n \in Nat /\ Len(t) \in Nat /\ Len(u) \in Nat
          BY <1>2
        <4>2. k \in 2..Len(t) /\ k + n - 1 \in (i + 1)..(j - 1)
          BY <3>1, <3>2, <4>1, SMTT(30)
        <4>3. QED
          BY <1>2, <4>2, Zenon
      <3>4. QED
        BY <3>1, <3>2, <3>3, Zenon
    <2>3. QED
      BY <2>1, <2>2, Zenon DEF TrainsFinish
  <1>5. ReleasedOnce(u, r)
    <2>0. ASSUME NEW i \in 1..Len(u),
                 u[i][2] \in {"GpioSlotResetControl", "ParsePlatformTopology"}
          PROVE  i - n + 1 \in 2..Len(t) /\ u[i] = t[i - n + 1]
      BY <1>2, <2>0 DEF Replaces, n
    <2>1. ASSUME NEW k \in 1..Len(t), t[k][2] = "GpioSlotResetControl"
          PROVE  k + n - 1 \in 1..Len(u) /\ u[k + n - 1] = t[k] /\ k \in 2..Len(t)
      BY <1>2, <2>1, SMTT(30) DEF Replaces
    <2>2. ASSUME NEW i \in 1..Len(u), u[i][2] \in Trainings
          PROVE  ~r \/ \E k \in 1..(i - 1) : u[k][2] = "GpioSlotResetControl"
      <3>1. CASE i <= n
        <4>1. c[i][2] \in Trainings
          BY <1>2, <2>2, <3>1
        <4>2. c[i][2] \in {"EARLY_TRAIN", "TRAIN"}
          BY <1>2, <3>1, <4>1 DEF Replaces, Trainings, n
        <4>3. QED
          BY <1>2, <3>1, <4>2 DEF Replaces, n
      <3>2. CASE i > n
        <4>1. PICK p \in 1..Len(t) : p = i - n + 1 /\ t[p][2] \in Trainings
          BY <1>2, <2>2, <3>2
        <4>2. ~r \/ \E k \in 1..(p - 1) : t[k][2] = "GpioSlotResetControl"
          <5>1. ReleasedOnce(t, r)
            BY Zenon DEF PlanOK
          <5>2. QED
            BY <4>1, <5>1, ReleasedBefore, Zenon
        <4>3. ASSUME NEW k \in 1..(p - 1), t[k][2] = "GpioSlotResetControl"
              PROVE  k + n - 1 \in 1..(i - 1) /\ u[k + n - 1][2] = "GpioSlotResetControl"
          <5>1. k \in 1..Len(t)
            BY <1>2, <4>1
          <5>2. k + n - 1 \in 1..Len(u) /\ u[k + n - 1] = t[k]
            BY <2>1, <4>3, <5>1
          <5>3. QED
            BY <1>2, <4>1, <4>3, <5>2, SMTT(30)
        <4>4. QED
          BY <4>2, <4>3, Zenon
      <3>3. i <= n \/ i > n
        BY <1>2
      <3>4. QED
        BY <3>1, <3>2, <3>3, Zenon
    <2>3. ASSUME NEW i \in 1..Len(u), u[i][2] = "ParsePlatformTopology"
          PROVE  \E g \in (i + 1)..Len(u) : u[g][2] = "GpioSlotResetControl"
      <3>1. i - n + 1 \in 1..Len(t) /\ t[i - n + 1][2] = "ParsePlatformTopology"
        <4>1. i - n + 1 \in 2..Len(t) /\ u[i] = t[i - n + 1]
          BY <2>0, <2>3, Zenon
        <4>2. i - n + 1 \in 1..Len(t)
          BY <1>2, <4>1
        <4>3. QED
          BY <2>3, <4>1, <4>2, Zenon
      <3>2. PICK g \in (i - n + 1 + 1)..Len(t) : t[g][2] = "GpioSlotResetControl"
        BY <3>1 DEF PlanOK, ReleasedOnce
      <3>3. g \in 1..Len(t)
        BY <1>2, <3>1, <3>2
      <3>4. g + n - 1 \in 1..Len(u) /\ u[g + n - 1] = t[g]
        BY <2>1, <3>2, <3>3, SMTT(30)
      <3>5. g + n - 1 \in (i + 1)..Len(u)
        BY <1>2, <3>1, <3>2, <3>4, SMTT(30)
      <3>6. QED
        BY <3>2, <3>4, <3>5, Zenon
    <2>4. ASSUME NEW i \in 1..Len(u), NEW j \in 1..Len(u),
                 u[i][2] = "GpioSlotResetControl", u[j][2] = "GpioSlotResetControl"
          PROVE  i = j
      <3>1. /\ i - n + 1 \in 1..Len(t) /\ u[i] = t[i - n + 1]
            /\ j - n + 1 \in 1..Len(t) /\ u[j] = t[j - n + 1]
        <4>1. /\ i - n + 1 \in 2..Len(t) /\ u[i] = t[i - n + 1]
              /\ j - n + 1 \in 2..Len(t) /\ u[j] = t[j - n + 1]
          BY <2>0, <2>4, Zenon
        <4>2. QED
          BY <1>2, <4>1
      <3>2. i - n + 1 = j - n + 1
        BY <2>4, <3>1, Zenon DEF PlanOK, ReleasedOnce
      <3>3. QED
        BY <1>2, <3>2
    <2>5. r <=> \E g \in 1..Len(u) : u[g][2] = "GpioSlotResetControl"
      <3>1. ASSUME r
            PROVE  \E g \in 1..Len(u) : u[g][2] = "GpioSlotResetControl"
        BY <2>1, <3>1, ZenonT(40) DEF PlanOK, ReleasedOnce
      <3>2. ASSUME NEW g \in 1..Len(u), u[g][2] = "GpioSlotResetControl"
            PROVE  r
        <4>1. g - n + 1 \in 1..Len(t) /\ t[g - n + 1][2] = "GpioSlotResetControl"
          <5>1. g - n + 1 \in 2..Len(t) /\ u[g] = t[g - n + 1]
            BY <2>0, <3>2, Zenon
          <5>2. g - n + 1 \in 1..Len(t)
            BY <1>2, <5>1
          <5>3. QED
            BY <3>2, <5>1, <5>2, Zenon
        <4>2. QED
          BY <4>1 DEF PlanOK, ReleasedOnce
      <3>3. QED
        BY <3>1, <3>2
    <2>6. QED
      BY <2>2, <2>3, <2>4, <2>5, Zenon DEF ReleasedOnce
  <1>6. QED
    BY <1>2, <1>3, <1>4, <1>5 DEF PlanOK
-----------------------------------------------------------------------------
(* The steps of the functions                                              *)

\* StagesWait for the steps of one function.
Waits(q) ==
  \A i \in 1..Len(q) : q[i] \in Stages => i + 1 \in 1..Len(q) /\ q[i + 1] = "GET_STATUS"

Has(q, x) == \E i \in 1..Len(q) : q[i] = x

LEMMA WaitsOne ==
  ASSUME NEW A, NEW x \in A, x \notin Stages
  PROVE  <<x>> \in Seq(A) /\ Waits(<<x>>)
  BY DEF Waits

LEMMA WaitsNone ==
  ASSUME NEW A
  PROVE  <<>> \in Seq(A) /\ Waits(<<>>)
  BY DEF Waits

LEMMA WaitsConcat ==
  ASSUME NEW A, NEW a \in Seq(A), NEW b \in Seq(A), Waits(a), Waits(b)
  PROVE  a \o b \in Seq(A) /\ Waits(a \o b)
  <1> DEFINE c == a \o b
  <1>1. /\ c \in Seq(A) /\ Len(c) = Len(a) + Len(b) /\ Len(a) \in Nat /\ Len(b) \in Nat
        /\ \A i \in 1..Len(a) : c[i] = a[i]
        /\ \A i \in 1..Len(b) : c[Len(a) + i] = b[i]
        /\ \A i \in 1..(Len(a) + Len(b)) : i > Len(a) =>
             i - Len(a) \in 1..Len(b) /\ c[i] = b[i - Len(a)]
    BY ConcatFacts
  <1> HIDE DEF c
  <1>2. ASSUME NEW i \in 1..Len(c), c[i] \in Stages
        PROVE  i + 1 \in 1..Len(c) /\ c[i + 1] = "GET_STATUS"
    <2>1. CASE i <= Len(a)
      <3>1. i \in 1..Len(a) /\ a[i] \in Stages
        BY <1>1, <1>2, <2>1
      <3>2. i + 1 \in 1..Len(a) /\ a[i + 1] = "GET_STATUS"
        BY <3>1 DEF Waits
      <3>3. QED
        BY <1>1, <3>2
    <2>2. CASE i > Len(a)
      <3>1. PICK p \in 1..Len(b) : p = i - Len(a) /\ b[p] \in Stages
        BY <1>1, <1>2, <2>2
      <3>2. p + 1 \in 1..Len(b) /\ b[p + 1] = "GET_STATUS"
        BY <3>1 DEF Waits
      <3>3. Len(a) + (p + 1) = i + 1 /\ i + 1 \in 1..Len(c)
        BY <1>1, <3>1, <3>2
      <3>4. QED
        BY <1>1, <3>2, <3>3
    <2>3. QED
      BY <1>1, <2>1, <2>2
  <1>3. QED
    BY <1>1, <1>2 DEF Waits, c

LEMMA HasConcat ==
  ASSUME NEW A, NEW a \in Seq(A), NEW b \in Seq(A), NEW x, Has(a, x) \/ Has(b, x)
  PROVE  Has(a \o b, x)
  <1>1. /\ Len(a \o b) = Len(a) + Len(b) /\ Len(a) \in Nat /\ Len(b) \in Nat
        /\ \A i \in 1..Len(a) : (a \o b)[i] = a[i]
        /\ \A i \in 1..Len(b) : (a \o b)[Len(a) + i] = b[i]
    BY ConcatFacts
  <1>2. ASSUME NEW i \in 1..Len(a), a[i] = x
        PROVE  i \in 1..Len(a \o b) /\ (a \o b)[i] = x
    BY <1>1, <1>2
  <1>3. ASSUME NEW i \in 1..Len(b), b[i] = x
        PROVE  Len(a) + i \in 1..Len(a \o b) /\ (a \o b)[Len(a) + i] = x
    BY <1>1, <1>3
  <1>4. QED
    BY <1>2, <1>3, Zenon DEF Has

LEMMA SendWaits ==
  ASSUME NEW A, NEW x \in A, x \notin Stages, "GET_STATUS" \in A
  PROVE  /\ WaitReady \o <<x>> \in Seq(A) /\ Waits(WaitReady \o <<x>>)
         /\ Len(WaitReady \o <<x>>) = 2 /\ (WaitReady \o <<x>>)[1] = "GET_STATUS"
  <1>1. "GET_STATUS" \notin Stages
    BY DEF Stages, SetupLink
  <1>2. <<x>> \in Seq(A) /\ Waits(<<x>>) /\ WaitReady \in Seq(A) /\ Waits(WaitReady)
    BY <1>1, WaitsOne DEF WaitReady
  <1>3. Len(WaitReady) = 1 /\ Len(<<x>>) = 1 /\ WaitReady[1] = "GET_STATUS"
    BY DEF WaitReady
  <1>4. /\ Len(WaitReady \o <<x>>) = Len(WaitReady) + Len(<<x>>)
        /\ \A i \in 1..Len(WaitReady) : (WaitReady \o <<x>>)[i] = WaitReady[i]
    BY <1>2, ConcatFacts
  <1>5. QED
    BY <1>2, <1>3, <1>4, WaitsConcat

LEMMA StageWaits ==
  ASSUME NEW A, NEW op \in A, "GET_STATUS" \in A, "GET_ASK_RESULT" \in A
  PROVE  Stage(op) \in Seq(A) /\ Waits(Stage(op)) /\ Has(Stage(op), op)
  <1> DEFINE c == <<op>> \o GetAsk
  <1>0. "GET_ASK_RESULT" \notin Stages
    BY DEF Stages, SetupLink
  <1>1. GetAsk \in Seq(A) /\ Waits(GetAsk) /\ Len(GetAsk) = 2 /\ GetAsk[1] = "GET_STATUS"
    BY <1>0, SendWaits DEF GetAsk
  <1>2. <<op>> \in Seq(A) /\ Len(<<op>>) = 1 /\ <<op>>[1] = op
    OBVIOUS
  <1>3. /\ c \in Seq(A) /\ Len(c) = 3
        /\ c[1] = op /\ c[2] = "GET_STATUS" /\ c[3] = GetAsk[2]
    <2>1. PICK a : a = <<op>>
      BY Zenon
    <2>2. a \in Seq(A) /\ Len(a) = 1 /\ a[1] = op /\ c = a \o GetAsk
      BY <1>2, <2>1
    <2>3. /\ a \o GetAsk \in Seq(A) /\ Len(a \o GetAsk) = 3 /\ (a \o GetAsk)[1] = a[1]
          /\ (a \o GetAsk)[2] = GetAsk[1] /\ (a \o GetAsk)[3] = GetAsk[2]
      BY <1>1, <2>2, ThreeFacts, SMT
    <2>4. QED
      BY <1>1, <2>2, <2>3, Zenon
  <1> HIDE DEF c
  <1>4. GetAsk[2] \notin Stages
    BY <1>1 DEF Waits
  <1>5. Waits(c)
    BY <1>3, <1>4 DEF Waits, Stages, SetupLink
  <1>6. Has(c, op)
    BY <1>3 DEF Has
  <1>7. QED
    BY <1>3, <1>5, <1>6 DEF Stage, c

\* What a function may do inside the initialisation of one socket before the release.
ConfigureSteps ==
  {"SET_GLOBAL_CONFIG", "GET_STATUS", "EXTENDED_ATTRIBUTES", "TRANSFER_ASK", "GET_ASK_RESULT",
   "MAP", "RECONFIG", "PERST", "MpioPortMapping", "WRITE_STRAP"}

LEMMA ConfigureWaits ==
  /\ Configure \in Seq(ConfigureSteps) /\ Waits(Configure)
  /\ Has(Configure, "MAP") /\ Has(Configure, "RECONFIG") /\ Has(Configure, "PERST")
  <1> DEFINE A  == ConfigureSteps
             b0 == <<"SET_GLOBAL_CONFIG">>
             b1 == IF platform.MPIOAncDataSupport THEN SendAncData ELSE <<>>
             b2 == <<"MpioPortMapping", "WRITE_STRAP">>
             b3 == <<"WRITE_STRAP">>
             OK(q) == q \in Seq(A) /\ Waits(q)
  <1>1. ASSUME NEW a, NEW b, OK(a), OK(b)
        PROVE  OK(a \o b) /\ \A x : Has(a, x) \/ Has(b, x) => Has(a \o b, x)
    BY <1>1, WaitsConcat, HasConcat, Zenon
  <1>2. OK(b0) /\ OK(b1) /\ OK(b2) /\ OK(b3) /\ OK(SendAsk)
    <2>1. OK(<<"SET_GLOBAL_CONFIG">>) /\ OK(<<"MpioPortMapping">>) /\ OK(<<"WRITE_STRAP">>) /\ OK(<<>>)
      BY WaitsOne, WaitsNone, Zenon DEF ConfigureSteps, Stages, SetupLink
    <2>2. OK(SendAsk) /\ OK(SendAncData)
      <3>1. /\ "GET_STATUS" \in A /\ "TRANSFER_ASK" \in A /\ "EXTENDED_ATTRIBUTES" \in A
            /\ "TRANSFER_ASK" \notin Stages /\ "EXTENDED_ATTRIBUTES" \notin Stages
        BY DEF ConfigureSteps, Stages, SetupLink
      <3>2. QED
        BY <3>1, SendWaits, Zenon DEF SendAsk, SendAncData
    <2>3. b2 \in Seq(A) /\ Len(b2) = 2 /\ b2[1] \notin Stages /\ b2[2] \notin Stages
      BY DEF ConfigureSteps, Stages, SetupLink
    <2>4. OK(b2)
      BY <2>3 DEF Waits
    <2>5. QED
      BY <2>1, <2>2, <2>4
  <1>3. ASSUME NEW op \in {"MAP", "RECONFIG", "PERST"}
        PROVE  OK(Stage(op)) /\ Has(Stage(op), op)
    BY StageWaits DEF ConfigureSteps
  <1> HIDE DEF OK, b0, b1, b2, b3
  <1>4. OK(b0 \o b1 \o SendAsk)
    BY <1>1, <1>2
  <1>5. OK(b0 \o b1 \o SendAsk \o Stage("MAP") \o b2)
        /\ Has(b0 \o b1 \o SendAsk \o Stage("MAP") \o b2, "MAP")
    BY <1>1, <1>2, <1>3, <1>4
  <1>6. /\ OK(b0 \o b1 \o SendAsk \o Stage("MAP") \o b2 \o Stage("RECONFIG") \o b3)
        /\ Has(b0 \o b1 \o SendAsk \o Stage("MAP") \o b2 \o Stage("RECONFIG") \o b3, "MAP")
        /\ Has(b0 \o b1 \o SendAsk \o Stage("MAP") \o b2 \o Stage("RECONFIG") \o b3, "RECONFIG")
    BY <1>1, <1>2, <1>3, <1>5
  <1>7. Configure = b0 \o b1 \o SendAsk \o Stage("MAP") \o b2 \o Stage("RECONFIG") \o b3 \o Stage("PERST")
    BY Zenon DEF Configure, b0, b1, b2, b3
  <1>8. OK(Configure) /\ Has(Configure, "MAP") /\ Has(Configure, "RECONFIG") /\ Has(Configure, "PERST")
    BY <1>1, <1>3, <1>6, <1>7
  <1>9. QED
    BY <1>8 DEF OK

FinishSteps ==
  {"GET_STATUS", "GET_ASK_RESULT", "UpdatePortTrainingStatus", "UpdateAskAfterTraining",
   "TRANSFER_ASK", "UPDATE_LINK"}

LEMMA FinishWaits ==
  Finish \in Seq(FinishSteps) /\ Waits(Finish) /\ Len(Finish) >= 1 /\ Finish[1] = "GET_STATUS"
  <1> DEFINE A  == FinishSteps
             b1 == <<"UpdatePortTrainingStatus", "UpdateAskAfterTraining">>
             b2 == <<"UPDATE_LINK">>
  <1>1. /\ GetAsk \in Seq(A) /\ Waits(GetAsk) /\ Len(GetAsk) = 2 /\ GetAsk[1] = "GET_STATUS"
        /\ SendAsk \in Seq(A) /\ Waits(SendAsk)
    <2>1. /\ "GET_STATUS" \in A /\ "TRANSFER_ASK" \in A /\ "GET_ASK_RESULT" \in A
          /\ "TRANSFER_ASK" \notin Stages /\ "GET_ASK_RESULT" \notin Stages
      BY DEF FinishSteps, Stages, SetupLink
    <2>2. QED
      BY <2>1, SendWaits, Zenon DEF GetAsk, SendAsk
  <1>2. b2 \in Seq(A) /\ Waits(b2)
    BY WaitsOne, Zenon DEF FinishSteps, Stages, SetupLink
  <1>3. b1 \in Seq(A) /\ Waits(b1)
    <2>1. b1 \in Seq(A) /\ Len(b1) = 2 /\ b1[1] \notin Stages /\ b1[2] \notin Stages
      BY DEF FinishSteps, Stages, SetupLink
    <2>2. QED
      BY <2>1 DEF Waits
  <1>4. Finish = GetAsk \o b1 \o SendAsk \o b2
    BY Zenon DEF Finish
  <1> HIDE DEF A, b1, b2
  <1>5. GetAsk \o b1 \in Seq(A) /\ Waits(GetAsk \o b1)
    BY <1>1, <1>3, WaitsConcat
  <1>6. GetAsk \o b1 \o SendAsk \in Seq(A) /\ Waits(GetAsk \o b1 \o SendAsk)
    BY <1>1, <1>5, WaitsConcat, Zenon
  <1>7. Finish \in Seq(A) /\ Waits(Finish)
    BY <1>2, <1>4, <1>6, WaitsConcat, Zenon
  <1>8. ASSUME NEW a \in Seq(A), NEW b \in Seq(A), Len(a) >= 1, a[1] = "GET_STATUS"
        PROVE  Len(a \o b) >= 1 /\ (a \o b)[1] = "GET_STATUS"
    BY <1>8, ConcatFacts
  <1>9. Len(Finish) >= 1 /\ Finish[1] = "GET_STATUS"
    <2>1. Len(GetAsk) >= 1
      BY <1>1
    <2>2. Len(GetAsk \o b1) >= 1 /\ (GetAsk \o b1)[1] = "GET_STATUS"
      BY <1>1, <1>3, <1>8, <2>1, Zenon
    <2>3. Len(GetAsk \o b1 \o SendAsk) >= 1 /\ (GetAsk \o b1 \o SendAsk)[1] = "GET_STATUS"
      BY <1>1, <1>5, <1>8, <2>2, Zenon
    <2>4. QED
      BY <1>2, <1>4, <1>6, <1>8, <2>3, Zenon
  <1>10. QED
    BY <1>7, <1>9 DEF A

LEMMA OnFacts ==
  ASSUME NEW s, NEW q \in Seq(Steps)
  PROVE  /\ DOMAIN q = 1..Len(q) /\ Len(q) \in Nat
         /\ Len(On(s, q)) = Len(q)
         /\ \A i \in 1..Len(q) : On(s, q)[i] = <<s, q[i]>>
         /\ s \in Sockets => On(s, q) \in Seq(Todo)
  BY SMTT(30) DEF On, Todo

\* The steps of a function of the initialisation keep the plan.
LEMMA OnReplaces ==
  ASSUME NEW t \in Seq(Todo), t # <<>>, NEW r, NEW q \in Seq(Steps), Waits(q),
         t[1][2] # "GpioSlotResetControl",
         \A i \in 1..Len(q) :
           /\ q[i] \notin {"GpioSlotResetControl", "ParsePlatformTopology", "EarlyLink",
                           "TrainInstance", "FinishInstance"}
           /\ q[i] = "TRAIN" => Len(q) = 1 /\ t[1][2] = "TrainInstance"
           /\ q[i] \in {"EARLY_TRAIN", "TRAIN"} => ~r
  PROVE  Replaces(On(t[1][1], q), t, r)
  <1> DEFINE c == On(t[1][1], q)
  <1>1. t[1][1] \in Sockets
    BY TailFacts DEF Todo
  <1>2. /\ Len(q) \in Nat /\ Len(c) = Len(q) /\ c \in Seq(Todo)
        /\ \A i \in 1..Len(q) : c[i] = <<t[1][1], q[i]>>
    BY <1>1, OnFacts
  <1> HIDE DEF c
  <1>3. StagesWait(c)
    BY <1>2 DEF StagesWait, Waits
  <1>4. \A i \in 1..Len(c) : c[i][1] = t[1][1] /\ c[i][2] = q[i]
    BY <1>2
  <1>5. QED
    BY <1>2, <1>3, <1>4 DEF Replaces, c

\* Taking a step off the plan, other than the release of the slots.
LEMMA NoneReplaces ==
  ASSUME NEW t, NEW r, t[1][2] # "GpioSlotResetControl"
  PROVE  Replaces(<<>>, t, r)
  BY DEF Replaces, StagesWait

\* The release of the slots.
LEMMA PlanRelease ==
  ASSUME NEW t, PlanOK(t, TRUE), t # <<>>, t[1][2] = "GpioSlotResetControl"
  PROVE  PlanOK(Tail(t), FALSE)
  <1> DEFINE u == Tail(t)
  <1>1. t \in Seq(Todo)
    BY DEF PlanOK
  <1>2. /\ Len(t) \in Nat /\ Len(t) >= 1 /\ u \in Seq(Todo) /\ Len(u) = Len(t) - 1
        /\ \A i \in 1..(Len(t) - 1) : u[i] = t[i + 1]
    BY <1>1, TailFacts
  <1> HIDE DEF u
  <1>3. ASSUME NEW i \in 1..Len(u)
        PROVE  i + 1 \in 1..Len(t) /\ u[i] = t[i + 1]
    BY <1>2
  <1>4. StagesWait(u)
    <2> SUFFICES ASSUME NEW i \in 1..Len(u), u[i][2] \in Stages
                 PROVE  i + 1 \in 1..Len(u) /\ u[i + 1] = <<u[i][1], "GET_STATUS">>
      BY DEF StagesWait
    <2>1. PICK p \in 1..Len(t) : p = i + 1 /\ u[i] = t[p]
      BY <1>3
    <2>2. p + 1 \in 1..Len(t) /\ t[p + 1] = <<t[p][1], "GET_STATUS">>
      BY <2>1 DEF PlanOK, StagesWait
    <2>3. QED
      BY <1>2, <2>1, <2>2
  <1>5. TrainsFinish(u)
    <2>0. TrainsFinish(t)
      BY Zenon DEF PlanOK
    <2>1. ASSUME NEW i \in 1..Len(u), u[i][2] = "TRAIN"
          PROVE  i = 1
      BY <1>2, <1>3, <2>0, <2>1, Zenon DEF TrainsFinish
    <2>2. ASSUME NEW i \in 1..Len(u), NEW j \in 1..Len(u), i < j,
                 u[i][2] \in {"TRAIN", "TrainInstance"}, u[j][1] = u[i][1], ~Cleans(u[i][1], u[j])
          PROVE  \E k \in (i + 1)..(j - 1) : Cleans(u[i][1], u[k])
      <3>1. PICK p \in 1..Len(t), q \in 1..Len(t) :
              p = i + 1 /\ q = j + 1 /\ u[i] = t[p] /\ u[j] = t[q] /\ p < q
        BY <1>2, <1>3, <2>2
      <3>2. PICK k \in (p + 1)..(q - 1) : Cleans(t[p][1], t[k])
        BY <2>0, <2>2, <3>1, FinishesBefore, Zenon
      <3>3. k - 1 \in (i + 1)..(j - 1) /\ u[k - 1] = t[k]
        <4>1. k - 1 \in (i + 1)..(j - 1) /\ k - 1 \in 1..Len(u) /\ (k - 1) + 1 = k
          BY <1>2, <3>1, <3>2, SMTT(30)
        <4>2. u[k - 1] = t[(k - 1) + 1]
          BY <1>3, <4>1, Zenon
        <4>3. QED
          BY <4>1, <4>2
      <3>4. QED
        BY <3>1, <3>2, <3>3, Zenon
    <2>3. QED
      BY <2>1, <2>2, Zenon DEF TrainsFinish
  <1>6. ReleasedOnce(u, FALSE)
    <2>0. ReleasedOnce(t, TRUE)
      BY Zenon DEF PlanOK
    <2>1. ASSUME NEW i \in 1..Len(u)
          PROVE  u[i][2] # "GpioSlotResetControl"
      <3>1. 1 \in 1..Len(t) /\ i + 1 # 1
        BY <1>2
      <3>2. QED
        BY <1>3, <2>0, <3>1 DEF ReleasedOnce
    <2>2. ASSUME NEW i \in 1..Len(u)
          PROVE  u[i][2] # "ParsePlatformTopology"
      <3>1. SUFFICES ASSUME u[i][2] = "ParsePlatformTopology"
                     PROVE  FALSE
        OBVIOUS
      <3>2. PICK p \in 1..Len(t) : p = i + 1 /\ t[p][2] = "ParsePlatformTopology"
        BY <1>3, <3>1
      <3>3. PICK g \in (p + 1)..Len(t) : t[g][2] = "GpioSlotResetControl"
        BY <2>0, <3>2 DEF ReleasedOnce
      <3>4. g - 1 \in 1..Len(u) /\ u[g - 1] = t[g]
        BY <1>2, <3>2, <3>3
      <3>5. QED
        BY <2>1, <3>3, <3>4
    <2>3. QED
      BY <2>1, <2>2, Zenon DEF ReleasedOnce
  <1>7. QED
    BY <1>2, <1>4, <1>5, <1>6, Zenon DEF PlanOK, u

-----------------------------------------------------------------------------
(* The plan at the start                                                   *)

LEMMA ForAllFacts ==
  ASSUME NEW x \in Steps
  PROVE  /\ ForAll(x) \in Seq(Todo) /\ Len(ForAll(x)) = Len(SocketOrder)
         /\ \A i \in 1..Len(SocketOrder) : ForAll(x)[i] = <<SocketOrder[i], x>>
  <1>1. ASSUME NEW T, NEW q \in Seq(T)
        PROVE  /\ [i \in DOMAIN q |-> <<q[i], x>>] \in Seq(T \X Steps)
               /\ Len([i \in DOMAIN q |-> <<q[i], x>>]) = Len(q)
               /\ \A i \in 1..Len(q) : [j \in DOMAIN q |-> <<q[j], x>>][i] = <<q[i], x>>
    OBVIOUS
  <1>2. SocketOrder \in Seq(Sockets)
    BY HandlesAssumption
  <1>3. QED
    BY <1>1, <1>2, Zenon DEF ForAll, Todo

\* c is the steps a followed by the steps b.
Joined(a, b, c) ==
  /\ c \in Seq(Todo) /\ Len(c) = Len(a) + Len(b)
  /\ \A i \in 1..Len(a) : c[i] = a[i]
  /\ \A i \in 1..Len(b) : c[Len(a) + i] = b[i]

LEMMA ConcatJoins ==
  ASSUME NEW a \in Seq(Todo), NEW b \in Seq(Todo)
  PROVE  Joined(a, b, a \o b)
  BY ConcatFacts DEF Joined

LEMMA LiteralSeq ==
  ASSUME NEW T, NEW x \in T, NEW y \in T
  PROVE  /\ <<x>> \in Seq(T) /\ Len(<<x>>) = 1 /\ <<x>>[1] = x
         /\ <<x, y>> \in Seq(T) /\ Len(<<x, y>>) = 2 /\ <<x, y>>[1] = x /\ <<x, y>>[2] = y
  OBVIOUS

LEMMA PlanElements ==
  ASSUME NEW n, n = Len(SocketOrder)
  PROVE  /\ NbioInitializeDxio \in Seq(Todo) /\ n \in Nat /\ Len(NbioInitializeDxio) = 4 * n + 3
         /\ \A i \in 1..n :
              /\ NbioInitializeDxio[i] = <<SocketOrder[i], "ParsePlatformTopology">>
              /\ NbioInitializeDxio[n + 2 + i] = <<SocketOrder[i], "TrainInstance">>
              /\ NbioInitializeDxio[2 * n + 2 + i] = <<SocketOrder[i], "FinishInstance">>
              /\ NbioInitializeDxio[3 * n + 2 + i] = <<SocketOrder[i], "AfterDxioInit">>
         /\ NbioInitializeDxio[n + 1] = <<First, "GpioSlotResetControl">>
         /\ NbioInitializeDxio[n + 2] = <<First, "EarlyLink">>
         /\ NbioInitializeDxio[4 * n + 3] = <<First, "MpioVisibilityControl">>
  <1> DEFINE a0 == ForAll("ParsePlatformTopology")
             a1 == <<<<First, "GpioSlotResetControl">>, <<First, "EarlyLink">>>>
             a2 == ForAll("TrainInstance")
             a3 == ForAll("FinishInstance")
             a4 == ForAll("AfterDxioInit")
             a5 == <<<<First, "MpioVisibilityControl">>>>
             b1 == a0 \o a1
             b2 == b1 \o a2
             b3 == b2 \o a3
             b4 == b3 \o a4
             b5 == b4 \o a5
  <1>1. n \in Nat /\ n >= 1 /\ First \in Sockets
    BY HandlesAssumption DEF First
  <1>2. /\ a0 \in Seq(Todo) /\ Len(a0) = n /\ \A i \in 1..n : a0[i] = <<SocketOrder[i], "ParsePlatformTopology">>
        /\ a2 \in Seq(Todo) /\ Len(a2) = n /\ \A i \in 1..n : a2[i] = <<SocketOrder[i], "TrainInstance">>
        /\ a3 \in Seq(Todo) /\ Len(a3) = n /\ \A i \in 1..n : a3[i] = <<SocketOrder[i], "FinishInstance">>
        /\ a4 \in Seq(Todo) /\ Len(a4) = n /\ \A i \in 1..n : a4[i] = <<SocketOrder[i], "AfterDxioInit">>
    <2>1. /\ "ParsePlatformTopology" \in Steps /\ "TrainInstance" \in Steps
          /\ "FinishInstance" \in Steps /\ "AfterDxioInit" \in Steps
      BY DEF Steps, HostSteps
    <2>2. QED
      BY <2>1, ForAllFacts, Zenon
  <1>3. /\ a1 \in Seq(Todo) /\ Len(a1) = 2
        /\ a1[1] = <<First, "GpioSlotResetControl">> /\ a1[2] = <<First, "EarlyLink">>
        /\ a5 \in Seq(Todo) /\ Len(a5) = 1 /\ a5[1] = <<First, "MpioVisibilityControl">>
    <2>1. /\ <<First, "GpioSlotResetControl">> \in Todo /\ <<First, "EarlyLink">> \in Todo
          /\ <<First, "MpioVisibilityControl">> \in Todo
      BY <1>1 DEF Todo, Steps, HostSteps
    <2>2. QED
      BY <2>1, LiteralSeq, Zenon
  <1>4. NbioInitializeDxio = b5
    BY Zenon DEF NbioInitializeDxio
  <1> HIDE DEF a0, a1, a2, a3, a4, a5
  <1>5. /\ b1 \in Seq(Todo) /\ Len(b1) = n + 2
        /\ \A i \in 1..n : b1[i] = a0[i]
        /\ \A i \in 1..2 : b1[n + i] = a1[i]
    <2>1. /\ b1 \in Seq(Todo) /\ Len(b1) = n + Len(a1)
          /\ \A i \in 1..n : b1[i] = a0[i]
          /\ \A i \in 1..Len(a1) : b1[n + i] = a1[i]
      <3>1. a1 \in Seq(Todo)
        BY <1>3
      <3>2. QED
        <4>1. Joined(a0, a1, b1)
          BY <1>2, <3>1, ConcatJoins, Zenon
        <4> HIDE DEF b1
        <4>2. QED
          BY <1>2, <4>1, Zenon DEF Joined
    <2>2. QED
      BY <1>3, <2>1, Zenon
  <1> HIDE DEF b1
  <1>6. /\ b2 \in Seq(Todo) /\ Len(b2) = 2 * n + 2
        /\ \A i \in 1..(n + 2) : b2[i] = b1[i]
        /\ \A i \in 1..n : b2[n + 2 + i] = a2[i]
    <2>1. /\ b2 \in Seq(Todo) /\ Len(b2) = n + 2 + n
          /\ \A i \in 1..(n + 2) : b2[i] = b1[i]
          /\ \A i \in 1..n : b2[n + 2 + i] = a2[i]
      <3>1. b1 \in Seq(Todo) /\ a2 \in Seq(Todo) /\ Len(b1) = n + 2 /\ Len(a2) = n
        BY <1>2, <1>5, Zenon
      <3>2. Joined(b1, a2, b2)
        BY <3>1, ConcatJoins, Zenon
      <3> HIDE DEF b2
      <3>3. QED
        BY <3>1, <3>2, Zenon DEF Joined
    <2>2. n + 2 + n = 2 * n + 2
      BY <1>1
    <2>3. QED
      BY <2>1, <2>2, Zenon
  <1> HIDE DEF b2
  <1>7. /\ b3 \in Seq(Todo) /\ Len(b3) = 3 * n + 2
        /\ \A i \in 1..(2 * n + 2) : b3[i] = b2[i]
        /\ \A i \in 1..n : b3[2 * n + 2 + i] = a3[i]
    <2>1. /\ b3 \in Seq(Todo) /\ Len(b3) = 2 * n + 2 + n
          /\ \A i \in 1..(2 * n + 2) : b3[i] = b2[i]
          /\ \A i \in 1..n : b3[2 * n + 2 + i] = a3[i]
      <3>1. b2 \in Seq(Todo) /\ a3 \in Seq(Todo) /\ Len(b2) = 2 * n + 2 /\ Len(a3) = n
        BY <1>2, <1>6, Zenon
      <3>2. Joined(b2, a3, b3)
        BY <3>1, ConcatJoins, Zenon
      <3> HIDE DEF b3
      <3>3. QED
        BY <3>1, <3>2, Zenon DEF Joined
    <2>2. 2 * n + 2 + n = 3 * n + 2
      BY <1>1
    <2>3. QED
      BY <2>1, <2>2, Zenon
  <1> HIDE DEF b3
  <1>8. /\ b4 \in Seq(Todo) /\ Len(b4) = 4 * n + 2
        /\ \A i \in 1..(3 * n + 2) : b4[i] = b3[i]
        /\ \A i \in 1..n : b4[3 * n + 2 + i] = a4[i]
    <2>1. /\ b4 \in Seq(Todo) /\ Len(b4) = 3 * n + 2 + n
          /\ \A i \in 1..(3 * n + 2) : b4[i] = b3[i]
          /\ \A i \in 1..n : b4[3 * n + 2 + i] = a4[i]
      <3>1. b3 \in Seq(Todo) /\ a4 \in Seq(Todo) /\ Len(b3) = 3 * n + 2 /\ Len(a4) = n
        BY <1>2, <1>7, Zenon
      <3>2. Joined(b3, a4, b4)
        BY <3>1, ConcatJoins, Zenon
      <3> HIDE DEF b4
      <3>3. QED
        BY <3>1, <3>2, Zenon DEF Joined
    <2>2. 3 * n + 2 + n = 4 * n + 2
      BY <1>1
    <2>3. QED
      BY <2>1, <2>2, Zenon
  <1> HIDE DEF b4
  <1>9. /\ b5 \in Seq(Todo) /\ Len(b5) = 4 * n + 3
        /\ \A i \in 1..(4 * n + 2) : b5[i] = b4[i]
        /\ b5[4 * n + 3] = a5[1]
    <2>1. /\ b5 \in Seq(Todo) /\ Len(b5) = 4 * n + 2 + 1
          /\ \A i \in 1..(4 * n + 2) : b5[i] = b4[i]
          /\ \A i \in 1..1 : b5[4 * n + 2 + i] = a5[i]
      <3>1. a5 \in Seq(Todo)
        BY <1>3
      <3>2. /\ b5 \in Seq(Todo) /\ Len(b5) = 4 * n + 2 + Len(a5)
            /\ \A i \in 1..(4 * n + 2) : b5[i] = b4[i]
            /\ \A i \in 1..Len(a5) : b5[4 * n + 2 + i] = a5[i]
        <4>1. Joined(b4, a5, b5)
          BY <1>8, <3>1, ConcatJoins, Zenon
        <4> HIDE DEF b5
        <4>2. QED
          BY <1>8, <4>1, Zenon DEF Joined
      <3>3. QED
        BY <1>3, <3>2, Zenon
    <2>2. 4 * n + 2 + 1 = 4 * n + 3 /\ 1 \in 1..1
      BY <1>1, SMTT(30)
    <2>3. QED
      BY <2>1, <2>2, Zenon
  <1> HIDE DEF b5
  <1>10. ASSUME NEW i \in 1..n
         PROVE  /\ b5[i] = a0[i] /\ b5[n + 2 + i] = a2[i]
                /\ b5[2 * n + 2 + i] = a3[i] /\ b5[3 * n + 2 + i] = a4[i]
    <2>1. /\ i \in 1..(n + 2) /\ i \in 1..(2 * n + 2) /\ i \in 1..(3 * n + 2) /\ i \in 1..(4 * n + 2)
          /\ n + 2 + i \in 1..(2 * n + 2) /\ n + 2 + i \in 1..(3 * n + 2) /\ n + 2 + i \in 1..(4 * n + 2)
          /\ 2 * n + 2 + i \in 1..(3 * n + 2) /\ 2 * n + 2 + i \in 1..(4 * n + 2)
          /\ 3 * n + 2 + i \in 1..(4 * n + 2)
      BY <1>1
    <2>2. QED
      BY <1>5, <1>6, <1>7, <1>8, <1>9, <2>1, SMTT(30)
  <1>11. b5[n + 1] = a1[1] /\ b5[n + 2] = a1[2]
    <2>1. ASSUME NEW i \in 1..2
          PROVE  b5[n + i] = a1[i]
      <3>1. /\ n + i \in 1..(n + 2) /\ n + i \in 1..(2 * n + 2) /\ n + i \in 1..(3 * n + 2)
            /\ n + i \in 1..(4 * n + 2)
        BY <1>1
      <3>2. QED
        BY <1>5, <1>6, <1>7, <1>8, <1>9, <3>1, SMTT(30)
    <2>2. QED
      BY <2>1
  <1>12. QED
    BY <1>1, <1>2, <1>3, <1>4, <1>9, <1>10, <1>11, Zenon

LEMMA PlanInit == PlanOK(NbioInitializeDxio, TRUE)
  <1>1. PICK n, p : n = Len(SocketOrder) /\ p = NbioInitializeDxio
    BY Zenon
  <1>2. /\ p \in Seq(Todo) /\ n \in Nat /\ Len(p) = 4 * n + 3
        /\ \A i \in 1..n :
             /\ p[i] = <<SocketOrder[i], "ParsePlatformTopology">>
             /\ p[n + 2 + i] = <<SocketOrder[i], "TrainInstance">>
             /\ p[2 * n + 2 + i] = <<SocketOrder[i], "FinishInstance">>
             /\ p[3 * n + 2 + i] = <<SocketOrder[i], "AfterDxioInit">>
        /\ p[n + 1] = <<First, "GpioSlotResetControl">>
        /\ p[n + 2] = <<First, "EarlyLink">>
        /\ p[4 * n + 3] = <<First, "MpioVisibilityControl">>
    BY <1>1, PlanElements, Zenon
  <1>3. ASSUME NEW i \in 1..Len(p)
        PROVE  \/ i \in 1..n /\ p[i][2] = "ParsePlatformTopology"
               \/ i = n + 1 /\ p[i][2] = "GpioSlotResetControl"
               \/ i = n + 2 /\ p[i][2] = "EarlyLink"
               \/ \E k \in 1..n : i = n + 2 + k /\ p[i] = <<SocketOrder[k], "TrainInstance">>
               \/ \E k \in 1..n : i = 2 * n + 2 + k /\ p[i] = <<SocketOrder[k], "FinishInstance">>
               \/ i > 3 * n + 2 /\ p[i][2] \in {"AfterDxioInit", "MpioVisibilityControl"}
    <2>1. CASE i \in 1..n
      BY <1>2, <2>1
    <2>2. CASE i = n + 1 \/ i = n + 2 \/ i = 4 * n + 3
      <3>1. 4 * n + 3 > 3 * n + 2
        BY <1>2
      <3>2. /\ p[n + 1][2] = "GpioSlotResetControl" /\ p[n + 2][2] = "EarlyLink"
            /\ p[4 * n + 3][2] = "MpioVisibilityControl"
        BY <1>2
      <3>3. QED
        BY <2>2, <3>1, <3>2, Zenon
    <2>3. CASE i \in (n + 3)..(2 * n + 2)
      <3>1. PICK k \in 1..n : i = n + 2 + k
        <4>1. i - n - 2 \in 1..n /\ i = n + 2 + (i - n - 2)
          BY <1>2, <2>3
        <4>2. QED
          BY <4>1, Zenon
      <3>2. QED
        BY <1>2, <3>1, Zenon
    <2>4. CASE i \in (2 * n + 3)..(3 * n + 2)
      <3>1. PICK k \in 1..n : i = 2 * n + 2 + k
        <4>1. i - 2 * n - 2 \in 1..n /\ i = 2 * n + 2 + (i - 2 * n - 2)
          BY <1>2, <2>4
        <4>2. QED
          BY <4>1, Zenon
      <3>2. QED
        BY <1>2, <3>1, Zenon
    <2>5. CASE i \in (3 * n + 3)..(4 * n + 2)
      <3>1. i - 3 * n - 2 \in 1..n /\ i = 3 * n + 2 + (i - 3 * n - 2) /\ i > 3 * n + 2
        BY <1>2, <2>5
      <3>2. p[i] = <<SocketOrder[i - 3 * n - 2], "AfterDxioInit">>
        BY <1>2, <3>1, Zenon
      <3>3. QED
        BY <3>1, <3>2
    <2>6. \/ i \in 1..n \/ (i = n + 1 \/ i = n + 2 \/ i = 4 * n + 3)
          \/ i \in (n + 3)..(2 * n + 2) \/ i \in (2 * n + 3)..(3 * n + 2)
          \/ i \in (3 * n + 3)..(4 * n + 2)
      <3>1. n \in Nat /\ i \in 1..(4 * n + 3)
        BY <1>2, Zenon
      <3>2. QED
        BY ONLY <3>1, SMTT(30)
    <2>7. QED
      BY <2>1, <2>2, <2>3, <2>4, <2>5, <2>6, ZenonT(40)
  <1>4. ASSUME NEW i \in 1..Len(p)
        PROVE  /\ p[i][2] \notin Stages /\ p[i][2] # "TRAIN"
               /\ p[i][2] \in Trainings => i > n + 1
               /\ p[i][2] = "ParsePlatformTopology" => i < n + 1
               /\ p[i][2] = "GpioSlotResetControl" => i = n + 1
    <2>0. n \in Nat /\ i \in Nat
      BY <1>2
    <2>1. CASE i \in 1..n /\ p[i][2] = "ParsePlatformTopology"
      BY <2>0, <2>1 DEF Stages, SetupLink, Trainings
    <2>2. CASE i = n + 1 /\ p[i][2] = "GpioSlotResetControl"
      BY <2>0, <2>2 DEF Stages, SetupLink, Trainings
    <2>3. CASE i = n + 2 /\ p[i][2] = "EarlyLink"
      BY <2>0, <2>3 DEF Stages, SetupLink, Trainings
    <2>4. CASE \E k \in 1..n : i = n + 2 + k /\ p[i] = <<SocketOrder[k], "TrainInstance">>
      <3>1. i > n + 1 /\ p[i][2] = "TrainInstance"
        BY <2>0, <2>4
      <3>2. QED
        BY <3>1 DEF Stages, SetupLink, Trainings
    <2>5. CASE \E k \in 1..n : i = 2 * n + 2 + k /\ p[i] = <<SocketOrder[k], "FinishInstance">>
      <3>1. p[i][2] = "FinishInstance"
        BY <2>5
      <3>2. QED
        BY <3>1 DEF Stages, SetupLink, Trainings
    <2>6. CASE i > 3 * n + 2 /\ p[i][2] \in {"AfterDxioInit", "MpioVisibilityControl"}
      BY <2>6 DEF Stages, SetupLink, Trainings
    <2>7. QED
      BY <1>3, <2>1, <2>2, <2>3, <2>4, <2>5, <2>6, ZenonT(40)
  <1>5. StagesWait(p)
    BY <1>4, Zenon DEF StagesWait
  <1>6. TrainsFinish(p)
    <2>1. ASSUME NEW i \in 1..Len(p), NEW j \in 1..Len(p), i < j,
                 p[i][2] \in {"TRAIN", "TrainInstance"}, p[j][1] = p[i][1], ~Cleans(p[i][1], p[j])
          PROVE  \E k \in (i + 1)..(j - 1) : Cleans(p[i][1], p[k])
      <3>1. PICK k \in 1..n : i = n + 2 + k /\ p[i] = <<SocketOrder[k], "TrainInstance">>
        BY <1>3, <1>4, <2>1
      <3>2. j > 3 * n + 2
        <4>1. ASSUME NEW m \in 1..n, j = n + 2 + m, p[j] = <<SocketOrder[m], "TrainInstance">>
              PROVE  FALSE
          <5>1. SocketOrder[m] = SocketOrder[k]
            BY <2>1, <3>1, <4>1
          <5>2. m = k
            BY <1>1, <5>1, HandlesAssumption, Zenon
          <5>3. QED
            BY <1>2, <2>1, <3>1, <4>1, <5>2
        <4>2. ASSUME NEW m \in 1..n, j = 2 * n + 2 + m, p[j] = <<SocketOrder[m], "FinishInstance">>
              PROVE  FALSE
          BY <2>1, <4>2, SMTT(30) DEF Cleans
        <4>3. /\ ~(j \in 1..n /\ p[j][2] = "ParsePlatformTopology")
              /\ ~(j = n + 1 /\ p[j][2] = "GpioSlotResetControl")
              /\ ~(j = n + 2 /\ p[j][2] = "EarlyLink")
          BY <1>2, <2>1, <3>1
        <4>4. QED
          BY <1>3, <4>1, <4>2, <4>3, ZenonT(40)
      <3>3. 2 * n + 2 + k \in (i + 1)..(j - 1) /\ Cleans(p[i][1], p[2 * n + 2 + k])
        <4>1. n \in Nat /\ j \in Nat
          BY <1>2
        <4>2. 2 * n + 2 + k \in (i + 1)..(j - 1)
          BY <3>1, <3>2, <4>1, SMTT(30)
        <4>3. p[2 * n + 2 + k] = <<SocketOrder[k], "FinishInstance">> /\ p[i][1] = SocketOrder[k]
          BY <1>2, <3>1
        <4>4. QED
          BY <4>2, <4>3 DEF Cleans
      <3>4. QED
        BY <3>3, ZenonT(40)
    <2>2. QED
      BY <1>4, <2>1, Zenon DEF TrainsFinish
  <1>7. ReleasedOnce(p, TRUE)
    <2>1. n + 1 \in 1..Len(p) /\ p[n + 1][2] = "GpioSlotResetControl"
      BY <1>2, SMTT(30)
    <2>2. ASSUME NEW i \in 1..Len(p), p[i][2] \in Trainings
          PROVE  \E k \in 1..(i - 1) : p[k][2] = "GpioSlotResetControl"
      <3>1. n + 1 \in 1..(i - 1)
        BY <1>2, <1>4, <2>2
      <3>2. QED
        BY <2>1, <3>1, Zenon
    <2>3. ASSUME NEW i \in 1..Len(p), p[i][2] = "ParsePlatformTopology"
          PROVE  \E g \in (i + 1)..Len(p) : p[g][2] = "GpioSlotResetControl"
      <3>1. n + 1 \in (i + 1)..Len(p)
        BY <1>2, <1>4, <2>3
      <3>2. QED
        BY <2>1, <3>1, Zenon
    <2>4. QED
      BY <1>4, <2>1, <2>2, <2>3, ZenonT(40) DEF ReleasedOnce
  <1>8. QED
    BY <1>1, <1>2, <1>5, <1>6, <1>7, Zenon DEF PlanOK

LEMMA InitHolds == Init => IInv
  <1> SUFFICES ASSUME Init
               PROVE  IInv
    OBVIOUS
  <1>1. PlanOK(todo, reset)
    BY PlanInit, ZenonT(40) DEF Init
  <1>2. /\ call = "none" /\ MpioArg = [from |-> "mpio", busy |-> FALSE]
        /\ DOMAIN mailbox = Sockets /\ DOMAIN fw = Sockets /\ DOMAIN AskBuffer = Sockets
        /\ \A s \in Sockets :
             /\ mailbox[s] = [ready |-> TRUE, doorbell |-> FALSE, id |-> "none", args |-> MpioArg]
             /\ fw[s] = [op |-> "none", owes |-> FALSE, disturbed |-> FALSE, done |-> {}, ask |-> <<>>]
             /\ AskBuffer[s] = <<>>
    BY SMTT(30) DEF Init, Idle
  <1>3. MailTypes
    <2>1. mailbox = [s \in Sockets |-> [ready |-> TRUE, doorbell |-> FALSE, id |-> "none", args |-> MpioArg]]
      BY Zenon DEF Init
    <2>2. QED
      BY <1>2, <2>1 DEF MailTypes, Box, Answer
  <1>4. MailOK /\ TakenOK /\ StageOK /\ SetupUndisturbed
    <2>1. TakenOK
      BY <1>2, Zenon DEF TakenOK
    <2>2. StageOK
      <3>1. "none" \notin Stages
        BY SMTT(30) DEF Stages, SetupLink
      <3>2. \A s \in Sockets : fw[s].op = "none"
        BY <1>2, SMTT(30)
      <3>3. QED
        BY <3>1, <3>2, Zenon DEF StageOK
    <2>3. SetupUndisturbed
      BY <1>2, SMTT(30) DEF SetupUndisturbed, SetupLink
    <2>4. MailOK
      BY <1>2, SMTT(30) DEF MailOK
    <2>5. QED
      BY <2>1, <2>2, <2>3, <2>4
  <1>5. TrainOK
    <2>1. todo # <<>> => Head2 # "TRAIN"
      <3>1. PICK n, p : n = Len(SocketOrder) /\ p = todo
        BY Zenon
      <3>2. n \in Nat /\ n >= 1
        BY <3>1, HandlesAssumption
      <3>3. p \in Seq(Todo) /\ Len(p) = 4 * n + 3 /\ \A i \in 1..n : p[i] = <<SocketOrder[i], "ParsePlatformTopology">>
        BY <3>1, PlanElements, ZenonT(40) DEF Init
      <3>4. Head(p)[2] = "ParsePlatformTopology"
        BY <3>2, <3>3, SMTT(30)
      <3>5. QED
        BY <3>1, <3>4 DEF Head2
    <2>2. \A s \in Sockets : fw[s].op # "TRAIN"
      BY <1>2, SMTT(30)
    <2>3. QED
      BY <2>1, <2>2, Zenon DEF TrainOK
  <1>6. ReleaseOK
    BY <1>2 DEF ReleaseOK, HasPorts
  <1>7. QED
    BY <1>1, <1>3, <1>4, <1>5, <1>6 DEF IInv
=============================================================================
