---------------------------- MODULE MpioInitProofs ----------------------------
(***************************************************************************)
(* Proofs about MPIO's initialisation for every set of sockets and root    *)
(* bridges, every order of the handles and every platform: the steps of    *)
(* the host, and the theorem.                                              *)
(***************************************************************************)
EXTENDS MpioPlanProofs, FiniteSetTheorems

-----------------------------------------------------------------------------
(* The host's own steps                                                    *)

\* Between two requests the registers are at rest and at most a training is going on; the
\* host does nothing for its socket but to finish it.
LEMMA Quiet ==
  ASSUME IInv, todo # <<>>, Head2 \notin Requests
  PROVE  /\ call = "none"
         /\ \A s \in Sockets : ~mailbox[s].doorbell /\ ~fw[s].owes /\ fw[s].op \notin Stages
         /\ fw[S].op = "TRAIN" => Head2 = "FinishInstance"
  <1>1. call = "none"
    BY Zenon DEF IInv, MailOK
  <1>2. ASSUME NEW s \in Sockets
        PROVE  ~mailbox[s].doorbell /\ ~fw[s].owes
    <2>1. call # "wait"
      BY <1>1
    <2>2. QED
      BY <2>1, Zenon DEF IInv, MailOK
  <1>3. ASSUME NEW s \in Sockets
        PROVE  fw[s].op \notin Stages
    <2>1. \A x \in Stages : x \in Requests
      BY DEF Stages, SetupLink, Requests, Posted
    <2>2. "GET_STATUS" \in Requests
      BY DEF Requests
    <2>3. QED
      BY <2>1, <2>2 DEF IInv, StageOK
  <1>4. ASSUME fw[S].op = "TRAIN"
        PROVE  Head2 = "FinishInstance"
    <2>1. S \in Sockets /\ S = todo[1][1] /\ Head2 = todo[1][2] /\ 1 \in 1..Len(todo) /\ todo \in Seq(Todo)
      BY HereFacts, Zenon DEF IInv
    <2>2. ~\E i \in 1..(1 - 1) : Cleans(S, todo[i])
      OBVIOUS
    <2>3. "TRAIN" \in Requests /\ "GET_STATUS" \in Requests
      BY DEF Requests, Posted, SetupLink
    <2>4. Cleans(S, todo[1])
      BY <1>4, <2>1, <2>2, <2>3, Zenon DEF IInv, TrainOK
    <2>5. QED
      BY <2>1, <2>3, <2>4 DEF Cleans
  <1>5. QED
    BY <1>1, <1>2, <1>3, <1>4

LEMMA HostMail ==
  ASSUME IInv, call = "none",
         \A s \in Sockets : ~mailbox[s].doorbell /\ ~fw[s].owes /\ fw[s].op \notin Stages,
         UNCHANGED <<call, MpioArg, mailbox, fw>>, DOMAIN AskBuffer' = Sockets
  PROVE  MailTypes' /\ MailOK' /\ TakenOK' /\ StageOK' /\ SetupUndisturbed'
  <1>1. MailTypes'
    BY DEF IInv, MailTypes
  <1>2. MailOK' /\ TakenOK'
    BY DEF IInv, MailOK, TakenOK
  <1>3. StageOK' /\ SetupUndisturbed'
    BY DEF IInv, StageOK, SetupUndisturbed
  <1>4. QED
    BY <1>1, <1>2, <1>3

LEMMA HostTrain ==
  ASSUME IInv, todo # <<>>, Head2 \notin Requests,
         NEW c \in Seq(Todo), todo' = c \o Tail(todo), UNCHANGED fw,
         \A i \in 1..Len(c) : c[i][1] = S /\ (c[i][2] = "TRAIN" => AskBuffer'[S] # <<>>),
         \A s \in Sockets : fw[s].op = "TRAIN" => AskBuffer'[s] # <<>>,
         fw[S].op = "TRAIN" => Len(c) >= 1 /\ c[1] = <<S, "GET_STATUS">>
  PROVE  TrainOK'
  <1>0. PICK t, u, n : t = todo /\ u = todo' /\ n = Len(c)
    BY Zenon
  <1>1. /\ t \in Seq(Todo) /\ S = t[1][1] /\ Head2 = t[1][2] /\ S \in Sockets
        /\ Len(t) \in Nat /\ Len(t) >= 1 /\ PlanOK(t, reset)
    BY <1>0, HereFacts, Zenon DEF IInv
  <1>2. /\ u \in Seq(Todo) /\ n \in Nat /\ Len(u) = n + Len(t) - 1
        /\ \A i \in 1..n : i \in 1..Len(u) /\ u[i] = c[i]
        /\ \A i \in 2..Len(t) : i + n - 1 \in 1..Len(u) /\ u[i + n - 1] = t[i]
        /\ \A i \in 1..Len(u) : i > n => i - n + 1 \in 2..Len(t) /\ u[i] = t[i - n + 1]
    <2>1. t # <<>> /\ u = c \o Tail(t)
      BY <1>0
    <2>2. Entered(c, t, u)
      BY <1>0, <1>1, <2>1, Entering, ZenonT(40)
    <2>3. QED
      BY <1>0, <2>2, Zenon DEF Entered
  <1>3. ASSUME NEW s \in Sockets, fw[s].op = "TRAIN", NEW j \in 1..Len(u), u[j][1] = s,
               ~Cleans(s, u[j])
        PROVE  \E i \in 1..(j - 1) : Cleans(s, u[i])
    <2>1. CASE s = S
      <3>1. 1 \in 1..n /\ u[1] = <<s, "GET_STATUS">>
        BY <1>0, <1>2, <1>3, <2>1
      <3>2. Cleans(s, u[1])
        BY <3>1 DEF Cleans
      <3>3. j # 1
        BY <1>3, <3>2
      <3>4. 1 \in 1..(j - 1)
        BY <1>2, <3>3
      <3>5. QED
        BY <3>2, <3>4, ZenonT(40)
    <2>2. CASE s # S
      <3>1. j > n
        BY <1>0, <1>2, <1>3, <2>2
      <3>2. PICK p \in 2..Len(t) : p = j - n + 1 /\ u[j] = t[p]
        BY <1>2, <3>1, Zenon
      <3>3. p \in 1..Len(t) /\ p # 1
        BY <1>1, <3>2
      <3>4. PICK i \in 1..(p - 1) : Cleans(s, t[i])
        BY <1>0, <1>3, <3>2, <3>3, ZenonT(40) DEF IInv, TrainOK
      <3>5. t[i][1] = s
        BY <3>4 DEF Cleans
      <3>6. i # 1
        BY <1>1, <2>2, <3>5, SMTT(30)
      <3>7. i \in 2..Len(t) /\ i + n - 1 \in 1..(j - 1)
        BY <1>1, <1>2, <3>2, <3>4, <3>6, SMTT(30)
      <3>8. Cleans(s, u[i + n - 1])
        BY <1>2, <3>4, <3>7, ZenonT(40)
      <3>9. QED
        BY <3>7, <3>8, Zenon
    <2>3. QED
      BY <2>1, <2>2
  <1>4. ASSUME u # <<>>, u[1][2] = "TRAIN"
        PROVE  AskBuffer'[u[1][1]] # <<>>
    <2>1. Len(u) >= 1 /\ 1 \in 1..Len(u)
      BY <1>2, <1>4, HeadFacts, ZenonT(40)
    <2>2. CASE n >= 1
      BY <1>0, <1>2, <1>4, <2>2, SMTT(30)
    <2>3. CASE n = 0
      <3>1. 2 \in 1..Len(t) /\ u[1] = t[2]
        BY <1>2, <2>1, <2>3
      <3>2. QED
        BY <1>1, <1>4, <3>1 DEF PlanOK, TrainsFinish
    <2>4. QED
      BY <1>2, <2>2, <2>3
  <1>5. todo' # <<>> => Head2' = u[1][2] /\ S' = u[1][1]
    BY <1>0, <1>2, HeadFacts, ZenonT(40) DEF Head2, S
  <1>6. QED
    BY <1>0, <1>3, <1>4, <1>5, Zenon DEF TrainOK

LEMMA HostRelease ==
  ASSUME IInv, todo # <<>>, Head2 \notin Requests,
         NEW c \in Seq(Todo), todo' = c \o Tail(todo), UNCHANGED <<fw, reset>>,
         \A s \in Sockets : HasPorts(s)' =>
           \/ HasPorts(s)
           \/ \A x \in {"MAP", "RECONFIG", "PERST"} :
                /\ \E i \in 1..Len(c) : c[i] = <<s, x>>
                /\ \E g \in 2..Len(todo) : todo[g][2] = "GpioSlotResetControl"
  PROVE  ReleaseOK'
  <1>0. PICK t, u, n : t = todo /\ u = todo' /\ n = Len(c)
    BY Zenon
  <1>1. t \in Seq(Todo) /\ Head2 = t[1][2] /\ Len(t) \in Nat /\ Len(t) >= 1
    BY <1>0, HereFacts, Zenon DEF IInv
  <1>2. /\ u \in Seq(Todo) /\ n \in Nat /\ Len(u) = n + Len(t) - 1
        /\ \A i \in 1..n : i \in 1..Len(u) /\ u[i] = c[i]
        /\ \A i \in 2..Len(t) : i + n - 1 \in 1..Len(u) /\ u[i + n - 1] = t[i]
    <2>1. t # <<>> /\ u = c \o Tail(t)
      BY <1>0
    <2>2. Entered(c, t, u)
      BY <1>0, <1>1, <2>1, Entering, ZenonT(40)
    <2>3. QED
      BY <1>0, <2>2, Zenon DEF Entered
  <1>3. ASSUME NEW s \in Sockets, NEW x \in {"MAP", "RECONFIG", "PERST"}, Ahead(s, x)
        PROVE  Ahead(s, x)'
    <2>0. PICK k \in 1..Len(t) :
            t[k] = <<s, x>> /\ \E g \in (k + 1)..Len(t) : t[g][2] = "GpioSlotResetControl"
      BY <1>0, <1>3, Zenon DEF Ahead
    <2>1. PICK g \in (k + 1)..Len(t) : t[k] = <<s, x>> /\ t[g][2] = "GpioSlotResetControl"
      BY <2>0, Zenon
    <2>2. k # 1
      BY <1>1, <2>1 DEF Requests, Posted, SetupLink
    <2>3. /\ k \in 2..Len(t) /\ g \in 2..Len(t) /\ g + n - 1 \in (k + n - 1 + 1)..Len(u)
          /\ k + n - 1 \in 1..Len(u)
      BY <1>1, <1>2, <2>1, <2>2, SMTT(30)
    <2>4. u[k + n - 1] = <<s, x>> /\ u[g + n - 1][2] = "GpioSlotResetControl"
      BY <1>2, <2>1, <2>3, Zenon
    <2>5. QED
      BY <1>0, <2>3, <2>4, Zenon DEF Ahead
  <1>4. ASSUME NEW s \in Sockets, NEW x, NEW i \in 1..n, c[i] = <<s, x>>,
               NEW g \in 2..Len(t), t[g][2] = "GpioSlotResetControl"
        PROVE  Ahead(s, x)'
    <2>1. i \in 1..Len(u) /\ u[i] = <<s, x>> /\ u[g + n - 1][2] = "GpioSlotResetControl"
      BY <1>2, <1>4, ZenonT(40)
    <2>2. g + n - 1 \in (i + 1)..Len(u)
      BY <1>1, <1>2
    <2>3. QED
      BY <1>0, <2>1, <2>2, ZenonT(40) DEF Ahead
  <1>5. ASSUME NEW s \in Sockets, HasPorts(s)', NEW x \in {"MAP", "RECONFIG", "PERST"}
        PROVE  x \in fw'[s].done \/ (reset' /\ fw'[s].op = x) \/ Ahead(s, x)'
    <2>0. fw' = fw /\ reset' = reset
      OBVIOUS
    <2>1. CASE HasPorts(s)
      <3>1. x \in fw[s].done \/ (reset /\ fw[s].op = x) \/ Ahead(s, x)
        BY <2>1, Zenon DEF IInv, ReleaseOK
      <3>2. QED
        BY <1>3, <2>0, <3>1
    <2>2. CASE ~HasPorts(s)
      BY <1>0, <1>4, <1>5, <2>2, ZenonT(40)
    <2>3. QED
      BY <2>1, <2>2, Zenon
  <1>6. \A s \in Sockets : fw'[s].op \in {"EARLY_TRAIN", "TRAIN"} => ~reset'
    BY DEF IInv, ReleaseOK
  <1>7. QED
    BY <1>5, <1>6, Zenon DEF ReleaseOK

\* A step of the host that replaces the head of the plan.
LEMMA HostStep ==
  ASSUME IInv, todo # <<>>, Head2 \notin Requests,
         NEW c, Replaces(c, todo, reset), todo' = c \o Tail(todo),
         UNCHANGED <<call, MpioArg, mailbox, fw, reset>>, DOMAIN AskBuffer' = Sockets,
         \A i \in 1..Len(c) : c[i][2] = "TRAIN" => AskBuffer'[S] # <<>>,
         \A s \in Sockets : fw[s].op = "TRAIN" => AskBuffer'[s] # <<>>,
         fw[S].op = "TRAIN" => Len(c) >= 1 /\ c[1] = <<S, "GET_STATUS">>,
         \A s \in Sockets : HasPorts(s)' =>
           \/ HasPorts(s)
           \/ \A x \in {"MAP", "RECONFIG", "PERST"} :
                /\ \E i \in 1..Len(c) : c[i] = <<s, x>>
                /\ \E g \in 2..Len(todo) : todo[g][2] = "GpioSlotResetControl"
  PROVE  IInv'
  <1>1. c \in Seq(Todo) /\ \A i \in 1..Len(c) : c[i][1] = todo[1][1]
    BY Zenon DEF Replaces
  <1>2. S = todo[1][1]
    BY HereFacts, Zenon DEF IInv
  <1>3. \A i \in 1..Len(c) : c[i][1] = S /\ (c[i][2] = "TRAIN" => AskBuffer'[S] # <<>>)
    BY <1>1, <1>2, Zenon
  <1>4. reset \in BOOLEAN
    BY Zenon DEF IInv, PlanOK
  <1>5. PlanOK(todo', reset)
    BY <1>4, PlanStep, ZenonT(40) DEF IInv
  <1>6. MailTypes' /\ MailOK' /\ TakenOK' /\ StageOK' /\ SetupUndisturbed'
    BY Quiet, HostMail
  <1>7. TrainOK'
    BY <1>1, <1>3, HostTrain, ZenonT(40)
  <1>8. ReleaseOK'
    BY <1>1, HostRelease, ZenonT(40)
  <1>9. PlanOK(todo, reset)'
    BY <1>5
  <1>10. QED
    BY <1>6, <1>7, <1>8, <1>9, ZenonT(40) DEF IInv

\* A step that leaves the ask structures alone.
LEMMA PlainStep ==
  ASSUME IInv, todo # <<>>, Head2 \notin Requests,
         NEW c, Replaces(c, todo, reset), todo' = c \o Tail(todo),
         UNCHANGED <<call, MpioArg, mailbox, fw, reset, AskBuffer>>,
         \A i \in 1..Len(c) : c[i][2] = "TRAIN" => AskBuffer[S] # <<>>,
         Head2 = "FinishInstance" /\ AskBuffer[S] # <<>> => Len(c) >= 1 /\ c[1] = <<S, "GET_STATUS">>
  PROVE  IInv'
  <1>1. AskBuffer' = AskBuffer /\ fw' = fw /\ DOMAIN AskBuffer' = Sockets
    BY DEF IInv, MailTypes
  <1>2. S \in Sockets
    BY HereFacts, Zenon DEF IInv
  <1>3. \A s \in Sockets : fw[s].op = "TRAIN" => AskBuffer[s] # <<>>
    BY Zenon DEF IInv, TrainOK
  <1>4. fw[S].op = "TRAIN" => Len(c) >= 1 /\ c[1] = <<S, "GET_STATUS">>
    BY <1>2, <1>3, Quiet, ZenonT(40)
  <1>5. \A s \in Sockets : HasPorts(s)' => HasPorts(s)
    BY <1>1 DEF HasPorts
  <1>6. \A i \in 1..Len(c) : c[i][2] = "TRAIN" => AskBuffer'[S] # <<>>
    BY <1>1
  <1>7. \A s \in Sockets : fw[s].op = "TRAIN" => AskBuffer'[s] # <<>>
    BY <1>1, <1>3
  <1>8. QED
    BY <1>1, <1>4, <1>5, <1>6, <1>7, HostStep, ZenonT(40)

\* A step that is over.
LEMMA LeaveStep ==
  ASSUME IInv, todo # <<>>, Head2 \notin Requests,
         Head2 \notin {"FinishInstance", "GpioSlotResetControl"},
         Leave, UNCHANGED <<call, MpioArg, mailbox, fw, reset, AskBuffer>>
  PROVE  IInv'
  <1>1. todo \in Seq(Todo) /\ todo[1][2] # "GpioSlotResetControl"
    BY HereFacts DEF IInv
  <1>2. PICK c : c = <<>>
    BY Zenon
  <1>3. Replaces(c, todo, reset) /\ Len(c) = 0 /\ todo' = c \o Tail(todo)
    BY <1>1, <1>2, NoneReplaces, LeaveEnters, SMTT(30) DEF Leave
  <1>4. \A i \in 1..Len(c) : c[i][2] = "TRAIN" => AskBuffer[S] # <<>>
    BY <1>3
  <1>5. QED
    BY <1>3, <1>4, PlainStep, SMTT(30)

\* The steps of a function of the host that sets no ports up.
LEMMA EnterStep ==
  ASSUME IInv, todo # <<>>, Head2 \notin Requests, Head2 # "GpioSlotResetControl",
         NEW q \in Seq(Steps), Waits(q),
         \A i \in 1..Len(q) :
           /\ q[i] \notin {"GpioSlotResetControl", "ParsePlatformTopology", "EarlyLink",
                           "TrainInstance", "FinishInstance"}
           /\ q[i] = "TRAIN" => Len(q) = 1 /\ Head2 = "TrainInstance" /\ AskBuffer[S] # <<>>
           /\ q[i] \in {"EARLY_TRAIN", "TRAIN"} => ~reset,
         Head2 = "FinishInstance" /\ AskBuffer[S] # <<>> => Len(q) >= 1 /\ q[1] = "GET_STATUS",
         Enter(On(S, q)), UNCHANGED <<call, MpioArg, mailbox, fw, reset, AskBuffer>>
  PROVE  IInv'
  <1>1. /\ todo \in Seq(Todo) /\ S = todo[1][1] /\ Head2 = todo[1][2] /\ S \in Sockets
    BY HereFacts, Zenon DEF IInv
  <1>2. PICK c : c = On(S, q)
    BY Zenon
  <1>3. /\ Len(q) \in Nat /\ Len(c) = Len(q)
        /\ \A i \in 1..Len(q) : c[i] = <<S, q[i]>>
    BY <1>2, OnFacts, SMTT(30)
  <1>4. Replaces(c, todo, reset)
    BY <1>1, <1>2, OnReplaces, SMTT(30)
  <1>5. \A i \in 1..Len(c) : c[i][2] = "TRAIN" => AskBuffer[S] # <<>>
    BY <1>3
  <1>6. Head2 = "FinishInstance" /\ AskBuffer[S] # <<>> => Len(c) >= 1 /\ c[1] = <<S, "GET_STATUS">>
    BY <1>3
  <1>7. todo' = c \o Tail(todo)
    BY <1>2 DEF Enter
  <1>8. QED
    BY <1>4, <1>5, <1>6, <1>7, PlainStep, ZenonT(40)

LEMMA ParseStep == IInv /\ ParsePlatformTopology => IInv'
  <1> SUFFICES ASSUME IInv, ParsePlatformTopology
               PROVE  IInv'
    OBVIOUS
  <1>1. /\ todo # <<>> /\ Head2 = "ParsePlatformTopology"
        /\ UNCHANGED <<call, MpioArg, mailbox, fw, reset>>
    BY DEF ParsePlatformTopology, At, host, mpio
  <1>2. /\ todo \in Seq(Todo) /\ S = todo[1][1] /\ Head2 = todo[1][2] /\ S \in Sockets
        /\ 1 \in 1..Len(todo)
    BY <1>1, HereFacts, Zenon DEF IInv
  <1>3. "ParsePlatformTopology" \notin Requests
    BY DEF Requests, Posted, SetupLink
  <1>4. PICK used, asks :
          /\ AskBuffer' = [AskBuffer EXCEPT ![S] = asks] /\ (used = <<>> => asks = <<>>)
          /\ todo' = (IF used = <<>> THEN <<>> ELSE On(S, Configure)) \o Tail(todo)
    <2>1. ASSUME NEW used, NEW asks, used = UsedEntries(S), asks = [i \in DOMAIN used |-> AskOf(used[i])]
          PROVE  /\ AskBuffer' = [AskBuffer EXCEPT ![S] = asks] /\ (used = <<>> => asks = <<>>)
                 /\ todo' = (IF used = <<>> THEN <<>> ELSE On(S, Configure)) \o Tail(todo)
      <3>1. used = <<>> => asks = <<>>
        BY <2>1
      <3>2. QED
        BY <2>1, <3>1, Zenon DEF ParsePlatformTopology, Enter
    <2>2. QED
      BY <2>1, Zenon
  <1>5. DOMAIN AskBuffer = Sockets
    BY Zenon DEF IInv, MailTypes
  <1>6. /\ DOMAIN AskBuffer' = Sockets /\ AskBuffer'[S] = asks
        /\ \A s \in Sockets : s # S => AskBuffer'[s] = AskBuffer[s]
    BY <1>2, <1>4, <1>5, SMTT(30)
  <1>7. PICK g \in 2..Len(todo) : todo[g][2] = "GpioSlotResetControl"
    BY <1>1, <1>2, SMTT(30) DEF IInv, PlanOK, ReleasedOnce
  <1>8. reset
    <2>1. g \in 1..Len(todo)
      BY <1>2, <1>7
    <2>2. QED
      BY <1>7, <2>1 DEF IInv, PlanOK, ReleasedOnce
  <1>9. \A s \in Sockets : fw[s].op # "TRAIN"
    BY <1>8 DEF IInv, ReleaseOK
  <1>10. CASE used = <<>>
    <2>1. PICK c : c = <<>>
      BY Zenon
    <2>2. Replaces(c, todo, reset) /\ Len(c) = 0 /\ todo' = c \o Tail(todo)
      BY <1>1, <1>2, <1>4, <1>10, <2>1, NoneReplaces, SMTT(30)
    <2>3. \A s \in Sockets : HasPorts(s)' => HasPorts(s)
      BY <1>1, <1>4, <1>6, <1>10, SMTT(30) DEF HasPorts
    <2>4. \A i \in 1..Len(c) : c[i][2] = "TRAIN" => AskBuffer'[S] # <<>>
      BY <2>2
    <2>5. QED
      BY <1>1, <1>2, <1>3, <1>6, <1>9, <2>2, <2>3, <2>4, HostStep, ZenonT(40)
  <1>11. CASE used # <<>>
    <2>1. PICK c, q : q = Configure /\ c = On(S, q)
      BY Zenon
    <2>2. /\ q \in Seq(ConfigureSteps) /\ Waits(q)
          /\ Has(q, "MAP") /\ Has(q, "RECONFIG") /\ Has(q, "PERST")
      BY <2>1, ConfigureWaits, Zenon
    <2>3. q \in Seq(Steps) /\ \A i \in 1..Len(q) : q[i] \in ConfigureSteps
      <3>1. \A x \in ConfigureSteps : x \in Steps
        BY DEF ConfigureSteps, Steps, Requests, Posted, SetupLink, HostSteps
      <3>2. QED
        BY <2>2, <3>1
    <2>4. Len(q) \in Nat /\ Len(c) = Len(q) /\ \A i \in 1..Len(q) : c[i] = <<S, q[i]>>
      BY <2>1, <2>3, OnFacts, SMTT(30)
    <2>5. Replaces(c, todo, reset)
      <3>1. \A i \in 1..Len(q) :
              /\ q[i] \notin {"GpioSlotResetControl", "ParsePlatformTopology", "EarlyLink",
                              "TrainInstance", "FinishInstance"}
              /\ q[i] \notin {"EARLY_TRAIN", "TRAIN"}
        BY <2>3 DEF ConfigureSteps
      <3>2. QED
        BY <1>1, <1>2, <2>1, <2>2, <2>3, <3>1, OnReplaces, ZenonT(40)
    <2>6. \A i \in 1..Len(c) : c[i][2] # "TRAIN"
      BY <2>3, <2>4, SMTT(30) DEF ConfigureSteps
    <2>7. \A x \in {"MAP", "RECONFIG", "PERST"} : \E i \in 1..Len(c) : c[i] = <<S, x>>
      BY <2>2, <2>4 DEF Has
    <2>8. ASSUME NEW s \in Sockets, HasPorts(s)', ~HasPorts(s)
          PROVE  s = S
      BY <1>1, <1>6, <2>8, SMTT(30) DEF HasPorts
    <2>9. todo' = c \o Tail(todo)
      BY <1>4, <1>11, <2>1, ZenonT(40)
    <2>10. \A s \in Sockets : HasPorts(s)' =>
             \/ HasPorts(s)
             \/ \A x \in {"MAP", "RECONFIG", "PERST"} :
                  /\ \E i \in 1..Len(c) : c[i] = <<s, x>>
                  /\ \E h \in 2..Len(todo) : todo[h][2] = "GpioSlotResetControl"
      BY <1>7, <2>7, <2>8, ZenonT(40)
    <2>11. /\ Head2 \notin Requests /\ fw[S].op # "TRAIN"
           /\ \A i \in 1..Len(c) : c[i][2] = "TRAIN" => AskBuffer'[S] # <<>>
      BY <1>1, <1>2, <1>3, <1>9, <2>6, ZenonT(40)
    <2>12. QED
      BY <1>1, <1>6, <1>9, <2>5, <2>9, <2>10, <2>11, HostStep, ZenonT(40)
  <1>12. QED
    BY <1>10, <1>11

\* The release: what is behind it trains, what was before it is done.
LEMMA ReleaseStep == IInv /\ GpioSlotResetControl => IInv'
  <1> SUFFICES ASSUME IInv, GpioSlotResetControl
               PROVE  IInv'
    OBVIOUS
  <1>1. /\ todo # <<>> /\ Head2 = "GpioSlotResetControl" /\ reset' = FALSE /\ todo' = Tail(todo)
        /\ UNCHANGED <<call, MpioArg, mailbox, fw, AskBuffer>>
    BY DEF GpioSlotResetControl, At, Leave, host, mpio
  <1>2. /\ todo \in Seq(Todo) /\ S = todo[1][1] /\ Head2 = todo[1][2] /\ S \in Sockets
        /\ 1 \in 1..Len(todo) /\ Len(todo) \in Nat
    BY <1>1, HereFacts, ZenonT(40) DEF IInv
  <1>3. Head2 \notin Requests
    BY <1>1 DEF Requests, Posted, SetupLink
  <1>4. reset = TRUE
    BY <1>1, <1>2 DEF IInv, PlanOK, ReleasedOnce
  <1>5. PlanOK(todo, reset)'
    <2>1. PlanOK(Tail(todo), FALSE)
      BY <1>1, <1>2, <1>4, PlanRelease, ZenonT(40) DEF IInv
    <2>2. QED
      BY <1>1, <2>1, Zenon
  <1>6. MailTypes' /\ MailOK' /\ TakenOK' /\ StageOK' /\ SetupUndisturbed'
    <2>1. DOMAIN AskBuffer' = Sockets
      BY <1>1 DEF IInv, MailTypes
    <2>2. QED
      BY <1>1, <1>3, <2>1, Quiet, HostMail, SMTT(30)
  <1>7. TrainOK'
    <2>1. PICK c : c = <<>>
      BY Zenon
    <2>2. c \in Seq(Todo) /\ Len(c) = 0 /\ todo' = c \o Tail(todo)
      BY <1>1, <1>2, <2>1, LeaveEnters, SMTT(30)
    <2>3. \A s \in Sockets : fw[s].op # "TRAIN"
      BY <1>4 DEF IInv, ReleaseOK
    <2>4. \A i \in 1..Len(c) : c[i][1] = S /\ (c[i][2] = "TRAIN" => AskBuffer'[S] # <<>>)
      BY <2>2
    <2>5. QED
      BY <1>1, <1>2, <1>3, <2>2, <2>3, <2>4, HostTrain, ZenonT(40)
  <1>8. ReleaseOK'
    <2>1. ASSUME NEW s \in Sockets, NEW x
          PROVE  ~Ahead(s, x)
      <3>1. ASSUME NEW k \in 1..Len(todo), NEW g \in (k + 1)..Len(todo), todo[g][2] = "GpioSlotResetControl"
            PROVE  FALSE
        <4>1. g \in 1..Len(todo) /\ g # 1
          BY <1>2
        <4>2. QED
          BY <1>1, <1>2, <3>1, <4>1, ZenonT(40) DEF IInv, PlanOK, ReleasedOnce
      <3>2. QED
        BY <3>1, Zenon DEF Ahead
    <2>2. ASSUME NEW s \in Sockets, HasPorts(s)', NEW x \in {"MAP", "RECONFIG", "PERST"}
          PROVE  x \in fw'[s].done
      <3>1. HasPorts(s)
        BY <1>1, <2>2 DEF HasPorts
      <3>2. fw[s].op # x
        BY <1>1, <1>3, Quiet, SMTT(30) DEF Stages, SetupLink
      <3>3. x \in fw[s].done
        BY <2>1, <3>1, <3>2, ZenonT(40) DEF IInv, ReleaseOK
      <3>4. QED
        BY <1>1, <3>3
    <2>3. QED
      BY <1>1, <2>2 DEF ReleaseOK
  <1>9. QED
    BY <1>5, <1>6, <1>7, <1>8, ZenonT(40) DEF IInv

\* The functions that map, train and finish.
LEMMA PortMappingStep == IInv /\ PortMapping => IInv'
  <1> SUFFICES ASSUME IInv, PortMapping
               PROVE  IInv'
    OBVIOUS
  <1>1. PICK q : q = <<"MapAsk", "SyncEarlyTrainRemap">>
    BY Zenon
  <1>2. /\ todo # <<>> /\ Head2 = "MpioPortMapping" /\ Enter(On(S, q))
        /\ UNCHANGED <<call, MpioArg, mailbox, fw, reset, AskBuffer>>
    BY <1>1 DEF PortMapping, At, host, mpio
  <1>3. /\ q \in Seq(Steps) /\ Len(q) = 2
        /\ \A i \in 1..Len(q) : q[i] \in {"MapAsk", "SyncEarlyTrainRemap"}
    BY <1>1 DEF Steps, HostSteps
  <1>4. Waits(q)
    BY <1>3 DEF Waits, Stages, SetupLink
  <1>5. Head2 \notin Requests /\ Head2 # "GpioSlotResetControl" /\ Head2 # "FinishInstance"
    BY <1>2 DEF Requests, Posted, SetupLink
  <1>6. \A i \in 1..Len(q) :
          q[i] \notin {"GpioSlotResetControl", "ParsePlatformTopology", "EarlyLink",
                       "TrainInstance", "FinishInstance", "TRAIN", "EARLY_TRAIN"}
    BY <1>3
  <1>7. QED
    BY <1>2, <1>3, <1>4, <1>5, <1>6, EnterStep, SMTT(30)

LEMMA EarlyLinkStep ==
  ASSUME IInv, At("EarlyLink"), Enter(IF CfgEarlyLink THEN On(S, EarlyLink) ELSE <<>>),
         UNCHANGED <<call, MpioArg, mailbox, fw, reset, AskBuffer>>
  PROVE  IInv'
  <1>1. todo # <<>> /\ Head2 = "EarlyLink"
    BY DEF At
  <1>2. Head2 \notin Requests /\ Head2 # "GpioSlotResetControl" /\ Head2 # "FinishInstance"
    BY <1>1 DEF Requests, Posted, SetupLink
  <1>3. ~reset
    <2>1. 1 \in 1..Len(todo) /\ todo[1][2] = "EarlyLink" /\ ReleasedOnce(todo, reset)
      BY <1>1, HereFacts, ZenonT(40) DEF IInv, PlanOK
    <2>2. todo[1][2] \in Trainings
      BY <2>1 DEF Trainings
    <2>3. ~reset \/ \E k \in 1..(1 - 1) : todo[k][2] = "GpioSlotResetControl"
      BY <2>1, <2>2, ReleasedBefore, Zenon
    <2>4. QED
      BY <2>3
  <1>4. PICK A : A = {"EARLY_TRAIN", "GET_STATUS", "GET_ASK_RESULT"}
    BY Zenon
  <1>5. EarlyLink \in Seq(A) /\ Waits(EarlyLink)
    BY <1>4, StageWaits DEF EarlyLink
  <1>6. \A x \in A : x \in Steps
    BY <1>4 DEF Steps, Requests, Posted, SetupLink
  <1>7. EarlyLink \in Seq(Steps) /\ \A i \in 1..Len(EarlyLink) : EarlyLink[i] \in A
    BY <1>5, <1>6
  <1>8. \A i \in 1..Len(EarlyLink) :
          EarlyLink[i] \notin {"GpioSlotResetControl", "ParsePlatformTopology", "EarlyLink",
                               "TrainInstance", "FinishInstance", "TRAIN"}
    BY <1>4, <1>7
  <1>9. CASE CfgEarlyLink
    BY <1>1, <1>2, <1>3, <1>5, <1>7, <1>8, <1>9, EnterStep, ZenonT(40)
  <1>10. CASE ~CfgEarlyLink
    <2>1. Leave
      BY <1>1, <1>10, LeaveEnters, SMTT(30) DEF Enter, Leave, IInv, PlanOK
    <2>2. QED
      BY <1>1, <1>2, <2>1, LeaveStep, SMTT(30)
  <1>11. QED
    BY <1>9, <1>10

LEMMA TrainInstanceStep ==
  ASSUME IInv, At("TrainInstance"), Enter(IF AskBuffer[S] = <<>> THEN <<>> ELSE On(S, <<"TRAIN">>)),
         UNCHANGED <<call, MpioArg, mailbox, fw, reset, AskBuffer>>
  PROVE  IInv'
  <1>1. todo # <<>> /\ Head2 = "TrainInstance"
    BY DEF At
  <1>2. Head2 \notin Requests /\ Head2 # "GpioSlotResetControl" /\ Head2 # "FinishInstance"
    BY <1>1 DEF Requests, Posted, SetupLink
  <1>3. ~reset
    <2>1. 1 \in 1..Len(todo) /\ todo[1][2] = "TrainInstance" /\ ReleasedOnce(todo, reset)
      BY <1>1, HereFacts, ZenonT(40) DEF IInv, PlanOK
    <2>2. todo[1][2] \in Trainings
      BY <2>1 DEF Trainings
    <2>3. ~reset \/ \E k \in 1..(1 - 1) : todo[k][2] = "GpioSlotResetControl"
      BY <2>1, <2>2, ReleasedBefore, ZenonT(40)
    <2>4. QED
      BY <2>3
  <1>4. CASE AskBuffer[S] # <<>>
    <2>1. PICK q : q = <<"TRAIN">>
      BY Zenon
    <2>2. q \in Seq(Steps) /\ Len(q) = 1 /\ \A i \in 1..Len(q) : q[i] = "TRAIN"
      BY <2>1 DEF Steps, Requests, Posted, SetupLink
    <2>3. Waits(q)
      BY <2>2 DEF Waits, Stages
    <2>4. Enter(On(S, q))
      BY <1>4, <2>1, ZenonT(40)
    <2>5. QED
      BY <1>1, <1>2, <1>3, <1>4, <2>2, <2>3, <2>4, EnterStep, ZenonT(40)
  <1>5. CASE AskBuffer[S] = <<>>
    <2>1. Leave
      BY <1>1, <1>5, LeaveEnters, SMTT(30) DEF Enter, Leave, IInv, PlanOK
    <2>2. QED
      BY <1>1, <1>2, <2>1, LeaveStep, SMTT(30)
  <1>6. QED
    BY <1>4, <1>5

LEMMA FinishInstanceStep ==
  ASSUME IInv, At("FinishInstance"), Enter(IF AskBuffer[S] = <<>> THEN <<>> ELSE On(S, Finish)),
         UNCHANGED <<call, MpioArg, mailbox, fw, reset, AskBuffer>>
  PROVE  IInv'
  <1>1. todo # <<>> /\ Head2 = "FinishInstance"
    BY DEF At
  <1>2. Head2 \notin Requests /\ Head2 # "GpioSlotResetControl"
    BY <1>1 DEF Requests, Posted, SetupLink
  <1>3. \A x \in FinishSteps : x \in Steps
    BY DEF FinishSteps, Steps, HostSteps, Requests, Posted, SetupLink
  <1>4. CASE AskBuffer[S] # <<>>
    <2>1. Finish \in Seq(Steps) /\ Waits(Finish) /\ Len(Finish) >= 1 /\ Finish[1] = "GET_STATUS"
      BY <1>3, FinishWaits
    <2>2. \A i \in 1..Len(Finish) : Finish[i] \in FinishSteps
      BY FinishWaits
    <2>3. \A i \in 1..Len(Finish) :
            Finish[i] \notin {"GpioSlotResetControl", "ParsePlatformTopology", "EarlyLink",
                              "TrainInstance", "FinishInstance", "TRAIN", "EARLY_TRAIN"}
      BY <2>2 DEF FinishSteps
    <2>4. QED
      BY <1>1, <1>2, <1>4, <2>1, <2>3, EnterStep, SMTT(30)
  <1>5. CASE AskBuffer[S] = <<>>
    <2>1. PICK c : c = <<>>
      BY Zenon
    <2>2. todo[1][2] # "GpioSlotResetControl"
      BY <1>1, <1>2, HereFacts, SMTT(30) DEF IInv
    <2>3. Replaces(c, todo, reset) /\ Len(c) = 0 /\ todo' = c \o Tail(todo)
      BY <1>5, <2>1, <2>2, NoneReplaces, SMTT(30) DEF Enter
    <2>4. \A i \in 1..Len(c) : c[i][2] = "TRAIN" => AskBuffer[S] # <<>>
      BY <2>3
    <2>5. QED
      BY <1>1, <1>2, <1>5, <2>3, <2>4, PlainStep, ZenonT(40)
  <1>6. QED
    BY <1>4, <1>5

LEMMA AfterDxioStep ==
  ASSUME IInv, At("AfterDxioInit"), NEW n \in Nat, Enter(On(S, [i \in 1..n |-> "GET_DELI_INFO"])),
         UNCHANGED <<call, MpioArg, mailbox, fw, reset, AskBuffer>>
  PROVE  IInv'
  <1>1. todo # <<>> /\ Head2 = "AfterDxioInit"
    BY DEF At
  <1>2. Head2 \notin Requests /\ Head2 # "GpioSlotResetControl" /\ Head2 # "FinishInstance"
    BY <1>1 DEF Requests, Posted, SetupLink
  <1>3. PICK q : q = [i \in 1..n |-> "GET_DELI_INFO"]
    BY Zenon
  <1>4. q \in Seq(Steps) /\ Len(q) = n /\ \A i \in 1..Len(q) : q[i] = "GET_DELI_INFO"
    <2>1. "GET_DELI_INFO" \in Steps
      BY DEF Steps, Requests
    <2>2. QED
      BY <1>3, <2>1
  <1>5. Waits(q)
    BY <1>4 DEF Waits, Stages, SetupLink
  <1>6. QED
    BY <1>1, <1>2, <1>3, <1>4, <1>5, EnterStep, SMTT(30)

LEMMA EnterLoopStep == IInv /\ EnterLoop => IInv'
  <1> SUFFICES ASSUME IInv, EnterLoop
               PROVE  IInv'
    OBVIOUS
  <1>1. UNCHANGED <<call, MpioArg, mailbox, fw, reset, AskBuffer>>
    BY DEF EnterLoop, host, mpio
  <1>2. PICK n : n = Cardinality({e \in Engines : e[1] = S /\ eng[e].allocated})
    BY Zenon
  <1>3. n \in Nat
    <2>1. IsFiniteSet({e \in Engines : e[1] = S /\ eng[e].allocated})
      BY HandlesAssumption, FS_Subset
    <2>2. QED
      BY <1>2, <2>1, FS_CardinalityType, SMTT(30)
  <1>4. QED
    BY <1>1, <1>2, <1>3, EarlyLinkStep, TrainInstanceStep, FinishInstanceStep, AfterDxioStep, ZenonT(40)
       DEF EnterLoop

LEMMA UpdateAskStep == IInv /\ UpdateAskAfterTraining => IInv'
  <1> SUFFICES ASSUME IInv, UpdateAskAfterTraining
               PROVE  IInv'
    OBVIOUS
  <1>1. /\ todo # <<>> /\ Head2 = "UpdateAskAfterTraining" /\ Leave
        /\ UNCHANGED <<call, MpioArg, mailbox, fw, reset>>
    BY DEF UpdateAskAfterTraining, At, host, mpio
  <1>2. Head2 \notin Requests /\ Head2 # "GpioSlotResetControl" /\ Head2 # "FinishInstance"
    BY <1>1, ZenonT(40) DEF Requests, Posted, SetupLink
  <1>3. /\ todo \in Seq(Todo) /\ S \in Sockets /\ todo[1][2] # "GpioSlotResetControl"
        /\ DOMAIN AskBuffer = Sockets
    BY <1>1, <1>2, HereFacts, SMTT(30) DEF IInv, MailTypes
  <1>4. PICK asks : AskBuffer' = [AskBuffer EXCEPT ![S] = asks] /\ (AskBuffer[S] = <<>> => asks = <<>>)
    <2>1. PICK asks : asks =
            [i \in DOMAIN AskBuffer[S] |->
               LET a == AskBuffer[S][i]
               IN IF a.ctrlType # "PCIe" THEN a
                  ELSE [a EXCEPT !.LogicalBridgeID = eng[MpioFindEngineForAsk(a)].LogicalBridgeId]]
      BY Zenon
    <2>2. AskBuffer' = [AskBuffer EXCEPT ![S] = asks]
      BY <2>1, Zenon DEF UpdateAskAfterTraining
    <2>3. AskBuffer[S] = <<>> => asks = <<>>
      BY <2>1
    <2>4. QED
      BY <2>2, <2>3, Zenon
  <1>5. /\ DOMAIN AskBuffer' = Sockets /\ AskBuffer'[S] = asks
        /\ \A s \in Sockets : s # S => AskBuffer'[s] = AskBuffer[s]
    BY <1>3, <1>4, SMTT(30)
  <1>6. PICK c : c = <<>>
    BY Zenon
  <1>7. Replaces(c, todo, reset) /\ Len(c) = 0 /\ todo' = c \o Tail(todo)
    BY <1>1, <1>3, <1>6, NoneReplaces, LeaveEnters, SMTT(30) DEF Leave
  <1>8. fw[S].op # "TRAIN"
    BY <1>1, <1>2, Quiet, ZenonT(40)
  <1>9. \A s \in Sockets : fw[s].op = "TRAIN" => AskBuffer'[s] # <<>>
    BY <1>5, <1>8, SMTT(30) DEF IInv, TrainOK
  <1>10. \A s \in Sockets : HasPorts(s)' => HasPorts(s)
    BY <1>1, <1>4, <1>5, SMTT(30) DEF HasPorts
  <1>11. \A i \in 1..Len(c) : c[i][2] = "TRAIN" => AskBuffer'[S] # <<>>
    BY <1>7
  <1>12. QED
    BY <1>1, <1>2, <1>5, <1>7, <1>8, <1>9, <1>10, <1>11, HostStep, ZenonT(40)

LEMMA ReadOnceStep ==
  ASSUME IInv, call = "wait", mailbox[S].ready, MpioArg' = mailbox[S].args, call' = "none",
         ~Again(mailbox[S].args), Leave, UNCHANGED <<mailbox, fw, AskBuffer, reset>>
  PROVE  IInv'
  <1>1. todo # <<>> /\ Head2 \in Requests /\ mailbox[S].args.from = "mpio"
    BY DEF IInv, MailOK
  <1>2. PICK t, u : t = todo /\ u = Tail(t) /\ u = todo'
    BY Zenon DEF Leave
  <1>3. /\ t \in Seq(Todo) /\ S = t[1][1] /\ Head2 = t[1][2] /\ S \in Sockets /\ t # <<>>
        /\ Len(t) \in Nat /\ Len(t) >= 1 /\ 1 \in 1..Len(t) /\ PlanOK(t, reset)
    BY <1>1, <1>2, HereFacts, ZenonT(40) DEF IInv
  <1>4. /\ u \in Seq(Todo) /\ Len(u) = Len(t) - 1
        /\ \A i \in 1..(Len(t) - 1) : u[i] = t[i + 1]
    BY <1>2, <1>3, TailFacts, SMTT(30)
  <1>5. ASSUME NEW i \in 1..Len(u)
        PROVE  i + 1 \in 1..Len(t) /\ i + 1 # 1 /\ u[i] = t[i + 1]
    BY <1>3, <1>4, SMTT(30)
  <1>6. \A s \in Sockets : ~mailbox[s].doorbell /\ ~fw[s].owes
    BY <1>3, ZenonT(40) DEF IInv, MailOK
  <1>7. /\ Head2 = "GET_STATUS" => fw[S].op = "none"
        /\ Head2 \in Posted => fw[S].op = Head2 \/ Head2 \in fw[S].done
    BY <1>3, <1>6, SMTT(30) DEF IInv, TakenOK, Again
  <1>8. PlanOK(todo, reset)'
    <2>1. t[1][2] # "GpioSlotResetControl"
      BY <1>1, <1>3 DEF Requests, Posted, SetupLink
    <2>2. reset \in BOOLEAN
      BY <1>3, ZenonT(40) DEF PlanOK
    <2>3. u = <<>> \o Tail(t)
      BY <1>2, <1>3, LeaveEnters, SMTT(30)
    <2>4. PlanOK(u, reset)
      BY <1>3, <2>1, <2>2, <2>3, NoneReplaces, PlanStep, ZenonT(40)
    <2>5. QED
      BY <1>2, <2>4, SMTT(30)
  <1>9. MailTypes'
    <2>1. mailbox[S].args \in Answer
      BY <1>3, SMTT(30) DEF IInv, MailTypes, Box
    <2>2. QED
      BY <2>1, SMTT(30) DEF IInv, MailTypes
  <1>10. MailOK' /\ TakenOK'
    BY <1>1, <1>6 DEF MailOK, TakenOK
  <1>11. u # <<>> => 1 \in 1..Len(u) /\ Head2' = u[1][2] /\ S' = u[1][1]
    BY <1>2, <1>4, HeadFacts, ZenonT(40) DEF Head2, S
  <1>12. StageOK'
    <2>1. ASSUME NEW s \in Sockets, fw[s].op \in Stages
          PROVE  u # <<>> /\ S' = s /\ Head2' = "GET_STATUS"
      <3>1. S = s /\ Head2 \in Stages
        <4>1. S = s /\ (Head2 = "GET_STATUS" \/ Head2 = fw[s].op)
          BY <2>1, ZenonT(40) DEF IInv, StageOK
        <4>2. Head2 # "GET_STATUS"
          BY <1>7, <2>1, <4>1, SMTT(30) DEF Stages, SetupLink
        <4>3. QED
          BY <2>1, <4>1, <4>2, SMTT(30)
      <3>2. 1 + 1 \in 1..Len(t) /\ t[1 + 1] = <<t[1][1], "GET_STATUS">>
        BY <1>3, <3>1, ZenonT(40) DEF PlanOK, StagesWait
      <3>3. 1 \in 1..(Len(t) - 1)
        BY <1>3, <3>2, SMTT(30)
      <3>4. u[1] = <<s, "GET_STATUS">> /\ Len(u) >= 1
        BY <1>3, <1>4, <3>1, <3>2, <3>3, SMTT(30)
      <3>5. u # <<>>
        BY <3>4
      <3>6. QED
        BY <1>11, <3>4, <3>5, SMTT(30)
    <2>2. fw' = fw
      OBVIOUS
    <2>3. QED
      BY <1>2, <2>1, <2>2, ZenonT(40) DEF StageOK
  <1>13. TrainOK'
    <2>1. ASSUME NEW s \in Sockets, fw[s].op = "TRAIN", NEW j \in 1..Len(u), u[j][1] = s, ~Cleans(s, u[j])
          PROVE  \E i \in 1..(j - 1) : Cleans(s, u[i])
      <3>1. PICK p \in 1..Len(t) : p = j + 1 /\ p # 1 /\ u[j] = t[p]
        BY <1>5, ZenonT(40)
      <3>2. PICK i \in 1..(p - 1) : Cleans(s, t[i])
        BY <1>2, <2>1, <3>1, ZenonT(40) DEF IInv, TrainOK
      <3>3. i # 1
        <4>1. SUFFICES ASSUME i = 1
                       PROVE  FALSE
          OBVIOUS
        <4>2. S = s /\ Head2 \in {"GET_STATUS", "FinishInstance"}
          BY <1>3, <3>2, <4>1, SMTT(30) DEF Cleans
        <4>3. Head2 = "GET_STATUS"
          BY <1>1, <4>2, SMTT(30) DEF Requests, Posted, SetupLink
        <4>4. QED
          BY <1>7, <2>1, <4>2, <4>3, SMTT(30)
      <3>4. i - 1 \in 1..(j - 1) /\ u[i - 1] = t[i]
        <4>1. i - 1 \in 1..(j - 1) /\ i - 1 \in 1..(Len(t) - 1) /\ (i - 1) + 1 = i
          BY <1>3, <1>4, <3>1, <3>2, <3>3, SMTT(30)
        <4>2. u[i - 1] = t[(i - 1) + 1]
          BY <1>4, <4>1, ZenonT(40)
        <4>3. QED
          BY <4>1, <4>2, SMTT(30)
      <3>5. QED
        BY <3>2, <3>4, ZenonT(40)
    <2>2. u # <<>> => Head2' # "TRAIN"
      BY <1>3, <1>5, <1>11, SMTT(30) DEF PlanOK, TrainsFinish
    <2>3. fw' = fw /\ AskBuffer' = AskBuffer
      OBVIOUS
    <2>4. \A s \in Sockets : fw[s].op = "TRAIN" => AskBuffer[s] # <<>>
      BY ZenonT(40) DEF IInv, TrainOK
    <2>5. QED
      BY <1>2, <2>1, <2>2, <2>3, <2>4, ZenonT(40) DEF TrainOK
  <1>14. ReleaseOK'
    <2>1. ASSUME NEW s \in Sockets, NEW x \in {"MAP", "RECONFIG", "PERST"}, Ahead(s, x)
          PROVE  x \in fw[s].done \/ (reset /\ fw[s].op = x) \/ Ahead(s, x)'
      <3>1. PICK k \in 1..Len(t) :
              t[k] = <<s, x>> /\ \E g \in (k + 1)..Len(t) : t[g][2] = "GpioSlotResetControl"
        BY <1>2, <2>1, ZenonT(40) DEF Ahead
      <3>2. PICK g \in (k + 1)..Len(t) : t[g][2] = "GpioSlotResetControl"
        BY <3>1, ZenonT(40)
      <3>3. g \in 1..Len(t)
        BY <1>3, <3>1, <3>2, SMTT(30)
      <3>4. CASE k = 1
        <4>1. reset
          BY <1>3, <3>2, <3>3, ZenonT(40) DEF PlanOK, ReleasedOnce
        <4>2. S = s /\ Head2 = x /\ Head2 \in Posted
          BY <1>3, <3>1, <3>4, SMTT(30) DEF Posted, SetupLink
        <4>3. QED
          BY <1>7, <4>1, <4>2, ZenonT(40)
      <3>5. CASE k # 1
        <4>1. k - 1 \in 1..Len(u) /\ g - 1 \in (k - 1 + 1)..Len(u) /\ g - 1 \in 1..Len(u)
          BY <1>3, <1>4, <3>1, <3>2, <3>5, SMTT(30)
        <4>2. k - 1 + 1 = k /\ g - 1 + 1 = g
          BY <1>3, <3>1, <3>2, SMTT(30)
        <4>3. u[k - 1] = t[k] /\ u[g - 1] = t[g]
          BY <1>5, <4>1, <4>2, SMTT(30)
        <4>4. QED
          BY <1>2, <3>1, <3>2, <4>1, <4>3, ZenonT(40) DEF Ahead
      <3>6. QED
        BY <3>4, <3>5
    <2>2. fw' = fw /\ reset' = reset /\ AskBuffer' = AskBuffer
      OBVIOUS
    <2>3. ASSUME NEW s \in Sockets, HasPorts(s)', NEW x \in {"MAP", "RECONFIG", "PERST"}
          PROVE  x \in fw[s].done \/ (reset /\ fw[s].op = x) \/ Ahead(s, x)'
      <3>1. HasPorts(s)
        BY <2>2, <2>3 DEF HasPorts
      <3>2. x \in fw[s].done \/ (reset /\ fw[s].op = x) \/ Ahead(s, x)
        BY <3>1, Zenon DEF IInv, ReleaseOK
      <3>3. QED
        BY <2>1, <3>2, ZenonT(40)
    <2>4. \A s \in Sockets : fw[s].op \in {"EARLY_TRAIN", "TRAIN"} => ~reset
      BY Zenon DEF IInv, ReleaseOK
    <2>5. QED
      BY <2>2, <2>3, <2>4, SMTT(30) DEF ReleaseOK
  <1>15. SetupUndisturbed'
    BY DEF IInv, SetupUndisturbed
  <1>16. QED
    BY <1>8, <1>9, <1>10, <1>12, <1>13, <1>14, <1>15, ZenonT(40) DEF IInv

LEMMA ReadAnswerStep == IInv /\ ReadAnswer => IInv'
  <1> SUFFICES ASSUME IInv, ReadAnswer
               PROVE  IInv'
    OBVIOUS
  <1>1. /\ call = "wait" /\ mailbox[S].ready /\ MpioArg' = mailbox[S].args /\ call' = "none"
        /\ IF Again(mailbox[S].args) THEN UNCHANGED todo ELSE Leave
        /\ UNCHANGED <<mailbox, fw, AskBuffer, reset>>
    BY DEF ReadAnswer, flow, mpio
  <1>2. CASE Again(mailbox[S].args)
    BY <1>1, <1>2, ReadAgainStep, SMTT(30) DEF Again
  <1>3. CASE ~Again(mailbox[S].args)
    BY <1>1, <1>3, ReadOnceStep
  <1>4. QED
    BY <1>2, <1>3
-----------------------------------------------------------------------------
(* The theorem                                                             *)

LEMMA HostStepKeeps == IInv /\ Host => IInv'
  <1> SUFFICES ASSUME IInv, Host
               PROVE  IInv'
    OBVIOUS
  <1>1. CASE MapNextAsk
    BY <1>1, Frame DEF MapNextAsk, host, mpio
  <1>2. CASE SyncNextEngine
    BY <1>2, Frame DEF SyncNextEngine, host, mpio
  <1>3. CASE EarlyTrainFixups
    <2>1. /\ todo # <<>> /\ Head2 = "MapAsk" /\ Leave
          /\ UNCHANGED <<call, MpioArg, mailbox, fw, reset, AskBuffer>>
      BY <1>3 DEF EarlyTrainFixups, At, host, mpio
    <2>2. Head2 \notin Requests /\ Head2 \notin {"FinishInstance", "GpioSlotResetControl"}
      BY <2>1 DEF Requests, Posted, SetupLink
    <2>3. QED
      BY <2>1, <2>2, LeaveStep, SMTT(30)
  <1>4. CASE SetPortPciAddressMap
    <2>1. /\ todo # <<>> /\ Head2 = "SyncEarlyTrainRemap" /\ Leave
          /\ UNCHANGED <<call, MpioArg, mailbox, fw, reset, AskBuffer>>
      BY <1>4 DEF SetPortPciAddressMap, At, host, mpio
    <2>2. Head2 \notin Requests /\ Head2 \notin {"FinishInstance", "GpioSlotResetControl"}
      BY <2>1 DEF Requests, Posted, SetupLink
    <2>3. QED
      BY <2>1, <2>2, LeaveStep, SMTT(30)
  <1>5. CASE UpdatePortTrainingStatus
    <2>1. /\ todo # <<>> /\ Head2 = "UpdatePortTrainingStatus" /\ Leave
          /\ UNCHANGED <<call, MpioArg, mailbox, fw, reset, AskBuffer>>
      BY <1>5 DEF UpdatePortTrainingStatus, At, host, mpio
    <2>2. Head2 \notin Requests /\ Head2 \notin {"FinishInstance", "GpioSlotResetControl"}
      BY <2>1 DEF Requests, Posted, SetupLink
    <2>3. QED
      BY <2>1, <2>2, LeaveStep
  <1>6. CASE VisibilityControl
    <2>1. /\ todo # <<>> /\ Head2 = "MpioVisibilityControl" /\ Leave
          /\ UNCHANGED <<call, MpioArg, mailbox, fw, reset, AskBuffer>>
      BY <1>6 DEF VisibilityControl, At, host, mpio
    <2>2. Head2 \notin Requests /\ Head2 \notin {"FinishInstance", "GpioSlotResetControl"}
      BY <2>1 DEF Requests, Posted, SetupLink
    <2>3. QED
      BY <2>1, <2>2, LeaveStep, SMTT(30)
  <1>7. CASE \/ ParsePlatformTopology \/ PortMapping \/ GpioSlotResetControl \/ EnterLoop
             \/ UpdateAskAfterTraining
    BY <1>7, ParseStep, PortMappingStep, ReleaseStep, EnterLoopStep, UpdateAskStep, ZenonT(40)
  <1>8. CASE WriteArguments \/ WriteMessageId \/ RingDoorbell \/ ReadAnswer
    BY <1>8, WriteArgumentsStep, WriteMessageIdStep, RingDoorbellStep, ReadAnswerStep, ZenonT(40)
  <1>9. QED
    BY <1>1, <1>2, <1>3, <1>4, <1>5, <1>6, <1>7, <1>8, ZenonT(40) DEF Host

LEMMA NextStep == IInv /\ [Next]_vars => IInv'
  <1> SUFFICES ASSUME IInv, [Next]_vars
               PROVE  IInv'
    OBVIOUS
  <1>1. CASE Host
    BY <1>1, HostStepKeeps, Zenon
  <1>2. ASSUME NEW s \in Sockets, Firmware(s)
        PROVE  IInv'
    BY <1>2, FwAcceptStep, FwAnswerStep, FwFinishStep, ZenonT(40) DEF Firmware
  <1>3. CASE UNCHANGED vars
    BY <1>3, Frame DEF vars
  <1>4. QED
    BY <1>1, <1>2, <1>3, ZenonT(40) DEF Next, Done

LEMMA Implied == IInv => CommandsInOrder
  <1> SUFFICES ASSUME IInv
               PROVE  CommandsInOrder
    OBVIOUS
  <1>1. SetupUndisturbed
    BY Zenon DEF IInv
  <1>2. AnswersAreMpios
    BY Zenon DEF IInv, MailOK, AnswersAreMpios
  <1>3. \A s \in Sockets : fw[s].op \in {"EARLY_TRAIN", "TRAIN"} => ~reset
    BY Zenon DEF IInv, ReleaseOK
  <1>4. ASSUME ~reset, NEW s \in Sockets, AskBuffer[s] # <<>>, NEW x \in {"MAP", "RECONFIG", "PERST"}
        PROVE  x \in fw[s].done
    <2>1. ~\E g \in 1..Len(todo) : todo[g][2] = "GpioSlotResetControl"
      BY <1>4, ZenonT(40) DEF IInv, PlanOK, ReleasedOnce
    <2>2. Len(todo) \in Nat
      BY DEF IInv, PlanOK
    <2>3. ~Ahead(s, x)
      BY <2>1, <2>2 DEF Ahead
    <2>4. QED
      BY <1>4, <2>3, ZenonT(40) DEF IInv, ReleaseOK, HasPorts
  <1>5. ResetOrder
    BY <1>3, <1>4 DEF ResetOrder
  <1>6. QED
    BY <1>1, <1>2, <1>5, ZenonT(40) DEF CommandsInOrder

\* For every set of root bridges, every order of the sockets' handles and every platform:
\* MPIO gets nothing but status requests while it sets up links, what
\* MpioServiceRequestCommon returns is MPIO's answer, and the slots leave reset between
\* PERST and the first training of every socket with ports (MpioEarlyInitV1).
THEOREM CommandsOrdered == Spec => []CommandsInOrder
  <1>1. IInv /\ [Next]_vars => IInv'
    BY NextStep, Zenon
  <1>2. QED
    BY <1>1, InitHolds, Implied, PTL DEF Spec
=============================================================================
