---------------------------- MODULE SidecarProofs ----------------------------
(***************************************************************************)
(* Proofs about the sidecar client and the process it talks to, for every  *)
(* number of requests and of faults.                                       *)
(***************************************************************************)
EXTENDS Sidecar, SequenceTheorems, TLAPS

----------------------------------------------------------------------------
(* Processes.                                                              *)

Processes ==
    /\ pc \in {"spawn", "handshake", "waitExit", "idle", "await", "failed", "reap", "gone", "fatal"}
    /\ spawned \in Nat
    /\ alive \subseteq {spawned}
    /\ pc \in {"spawn", "gone", "fatal"} => alive = {}

LEMMA ProcessesInvariant == Spec => []Processes
<1>1. Init => Processes
  BY DEF Init, Processes
<1>2. ASSUME Processes, [Next]_vars PROVE Processes'
  <2> USE <1>2 DEF Processes, ChildAlive
  <2>1. CASE Spawn
    BY <2>1 DEF Spawn
  <2>2. CASE SpawnError \/ HandshakeEof
    BY <2>2 DEF SpawnError, HandshakeEof, SpawnFailed, process
  <2>3. CASE HandshakeSkip \/ HandshakeReady \/ HandshakeGarbled
    BY <2>3 DEF HandshakeSkip, HandshakeReady, HandshakeGarbled, Send, client
  <2>4. CASE Request \/ ReadReply \/ ReadNothing \/ GiveUp \/ DropAsk
    BY <2>4 DEF Request, Send, ReadReply, ReadNothing, GiveUp, DropAsk, process
  <2>5. CASE Restart \/ DropDone
    BY <2>5 DEF Restart, DropDone
  <2>6. CASE Load \/ Serve \/ Work \/ Answer \/ Crash \/ Wedge
    BY <2>6 DEF Load, Serve, Work, Answer, Crash, Wedge, client
  <2>7. CASE UNCHANGED vars
    BY <2>7 DEF vars, client, process
  <2> QED
    BY <2>1, <2>2, <2>3, <2>4, <2>5, <2>6, <2>7 DEF Next, ClientStep, ProcessStep
<1> QED
  BY <1>1, <1>2, PTL DEF Spec

(* A restart and Drop leave no process behind (request, Drop for Sidecar). *)
THEOREM NoProcessStrays == Spec => []NoStrayProcess
<1>1. Processes => NoStrayProcess
  BY DEF Processes, NoStrayProcess
<1> QED
  BY <1>1, ProcessesInvariant, PTL

----------------------------------------------------------------------------
(* Calls.                                                                  *)

\* A request was made and has not returned: also while its restart is under way.
Calling ==
    \/ pc \in {"await", "failed"}
    \/ why = "restart" /\ pc \in {"spawn", "handshake", "waitExit"}

Counted ==
    /\ kinds \in Seq({"transcribe", "learn"}) /\ Len(kinds) <= MaxCalls
    /\ returns \in Seq(SUBSET Calls)
    /\ Len(kinds) = IF Calling THEN Len(returns) + 1 ELSE Len(returns)
    /\ tries \in 0..2
    /\ llm \in BOOLEAN

\* What is in the pipes, and what the process does, at each point of the client.
Greeting ==
    /\ stdin = <<>>
    /\ \/ stdout = <<>> /\ phase \in {"loading", "wedged"}
       \/ stdout \in {<<Ready(llm)>>, <<Noise, Ready(llm)>>, <<Garbled, Ready(llm)>>}
          /\ phase \in {"serving", "wedged"}
Quiet == stdin = <<>> /\ stdout = <<>> /\ phase \in {"serving", "wedged"}
Asked ==
    \/ /\ stdin = <<Current>> /\ stdout = <<>>
       /\ phase \in {"serving", "working", "replying", "wedged"}
    \/ /\ stdin = <<>> /\ stdout \in {<<Reply(Current)>>, <<Garbled>>}
       /\ phase \in {"serving", "wedged"}
    \/ stdout = <<Partial>> /\ ~ChildAlive
Conversation ==
    /\ pc = "handshake" => Greeting
    /\ pc = "waitExit" => stdin = <<>> /\ phase \in {"serving", "wedged"}
    /\ pc \in {"idle", "failed"} /\ ChildAlive => Quiet /\ caps = llm
    /\ pc = "await" => Asked /\ (ChildAlive => caps = llm)
    /\ pc = "reap" /\ ChildAlive => stdin = <<Quit>> /\ phase \in {"serving", "wedged"}

LEMMA LinesDiffer ==
    /\ \A c : Ready(c).line = "ready" /\ Ready(c).caps = c
    /\ \A r : Reply(r).line = "reply" /\ Reply(r).to = r
    /\ Noise.line = "noise" /\ Partial.line = "partial" /\ Garbled.line = "garbled"
BY DEF Ready, Reply, Noise, Partial, Garbled

LEMMA FirstLine ==
    ASSUME NEW a, NEW b
    PROVE  /\ Head(<<a>>) = a /\ Tail(<<a>>) = <<>>
           /\ Head(<<a, b>>) = a /\ Tail(<<a, b>>) = <<b>>
           /\ <<>> \o <<>> \o <<a>> = <<a>> /\ <<>> \o <<b>> \o <<a>> = <<b, a>>
           /\ Append(<<>>, a) = <<a>> /\ <<a>> # <<>>
<1>1. Head(<<a>>) = a /\ Tail(<<a>>) = <<>> /\ Append(<<>>, a) = <<a>> /\ <<a>> # <<>>
  OBVIOUS
<1>2. Head(<<a, b>>) = a /\ Tail(<<a, b>>) = <<b>>
  OBVIOUS
<1>3. <<>> \o <<>> \o <<a>> = <<a>>
  <2>1. <<>> \o <<>> = <<>> /\ <<>> \o <<a>> = <<a>>
    OBVIOUS
  <2> QED
    BY <2>1
<1>4. <<>> \o <<b>> \o <<a>> = <<b, a>>
  <2>1. <<>> \o <<b>> = <<b>>
    OBVIOUS
  <2>2. <<b>> \o <<a>> = <<b, a>>
    <3> DEFINE S == {a, b}
    <3>1. a \in S /\ b \in S
      OBVIOUS
    <3> HIDE DEF S
    <3>2. <<b>> \in Seq(S) /\ <<b, a>> \in Seq(S)
      BY <3>1
    <3>3. Append(<<b>>, a) = <<b>> \o <<a>>
      BY <3>1, <3>2, AppendIsConcat
    <3>4. Append(<<b>>, a) = <<b, a>>
      <4> DEFINE t == Append(<<b>>, a)
                 u == <<b, a>>
      <4>1. /\ t \in Seq(S) /\ Len(t) = 2 /\ t[1] = b /\ t[2] = a
            /\ u \in Seq(S) /\ Len(u) = 2 /\ u[1] = b /\ u[2] = a
        BY <3>1, <3>2
      <4> HIDE DEF t, u
      <4>2. \A i \in 1..Len(t) : t[i] = u[i]
        BY <4>1
      <4>3. t = u
        BY <4>1, <4>2, SeqEqual
      <4> QED
        BY <4>3 DEF t, u
    <3> QED
      BY <3>3, <3>4
  <2> QED
    BY <2>1, <2>2
<1> QED
  BY <1>1, <1>2, <1>3, <1>4

LEMMA CountedStep ==
    ASSUME Counted, Conversation, [Next]_vars PROVE Counted'
<1> USE DEF Counted, Calling, Current
<1>1. CASE UNCHANGED <<kinds, returns, tries, llm>> /\ (Calling <=> Calling')
  BY <1>1
<1>2. ASSUME pc \in {"spawn", "handshake", "waitExit"}, SpawnFailed,
             UNCHANGED <<kinds, tries, llm>>
      PROVE  Counted'
  <2>1. CASE why = "restart"
    <3>1. returns' = Append(returns, {}) /\ pc' = "idle"
      BY <1>2, <2>1 DEF SpawnFailed
    <3> QED
      BY <1>2, <2>1, <3>1
  <2>2. CASE why # "restart"
    BY <1>2, <2>2 DEF SpawnFailed
  <2> QED
    BY <2>1, <2>2
<1>3. CASE Spawn
  BY <1>3 DEF Spawn
<1>4. CASE SpawnError \/ HandshakeEof
  BY <1>2, <1>4 DEF SpawnError, HandshakeEof, process
<1>5. CASE HandshakeReady
  BY <1>5 DEF HandshakeReady, Send
<1>6. CASE HandshakeSkip \/ HandshakeGarbled
  BY <1>1, <1>6 DEF HandshakeSkip, HandshakeGarbled, client
<1>7. CASE Request
  <2>1. PICK k \in {"transcribe", "learn"} : kinds' = Append(kinds, k)
    BY <1>7 DEF Request
  <2>2. /\ pc = "idle" /\ Len(kinds) < MaxCalls /\ pc' \in {"await", "failed"} /\ tries' = 1
        /\ UNCHANGED <<why, returns, llm>>
    BY <1>7 DEF Request, Send
  <2> QED
    BY <2>1, <2>2, SidecarBounds
<1>8. CASE ReadReply
  <2>1. pc = "await" /\ Head(stdout).line = "reply" /\ stdout # <<>> /\ pc' = "idle"
        /\ returns' = Append(returns, {Head(stdout).to}) /\ UNCHANGED <<kinds, tries, llm>>
    BY <1>8 DEF ReadReply
  <2>2. Head(stdout) = Reply(Current)
    BY <2>1, LinesDiffer, FirstLine DEF Conversation, Asked
  <2>3. {Head(stdout).to} \in SUBSET Calls
    BY <2>1, <2>2, LinesDiffer, SidecarBounds DEF Calls
  <2> QED
    BY <2>1, <2>3
<1>9. CASE GiveUp
  <2>1. pc = "failed" /\ pc' = "idle" /\ returns' = Append(returns, {}) /\ UNCHANGED <<kinds, tries, llm>>
    BY <1>9 DEF GiveUp, process
  <2> QED
    BY <2>1
<1>10. CASE ReadNothing \/ Restart \/ DropAsk \/ DropDone
  BY <1>1, <1>10 DEF ReadNothing, Restart, DropAsk, DropDone
<1>11. CASE Load \/ Serve \/ Work \/ Answer \/ Crash \/ Wedge
  BY <1>11 DEF Load, Serve, Work, Answer, Crash, Wedge, client
<1>12. CASE UNCHANGED vars
  BY <1>12 DEF vars, client, process
<1> QED
  BY <1>3, <1>4, <1>5, <1>6, <1>7, <1>8, <1>9, <1>10, <1>11, <1>12 DEF Next, ClientStep, ProcessStep

LEMMA ConversationStep ==
    ASSUME Processes, Counted, Conversation, [Next]_vars PROVE Conversation'
<1> USE DEF Conversation, Calling, ChildAlive, Current, Processes
<1>1. CASE Spawn
  BY <1>1 DEF Spawn, Greeting
<1>2. CASE SpawnError \/ HandshakeEof
  <2>1. ~ChildAlive /\ pc' \in {"spawn", "fatal", "idle"} /\ UNCHANGED process
    BY <1>2 DEF SpawnError, HandshakeEof, SpawnFailed
  <2> QED
    BY <2>1 DEF process
<1>3. CASE HandshakeSkip
  <2>1. stdout = <<Noise, Ready(llm)>> /\ stdin = <<>> /\ phase \in {"serving", "wedged"}
    BY <1>3, LinesDiffer, FirstLine DEF HandshakeSkip, Greeting
  <2>2. stdout' = <<Ready(llm)>> /\ pc = "handshake" /\ UNCHANGED <<pc, spawned, alive, phase, llm, stdin>>
    BY <1>3, <2>1, FirstLine DEF HandshakeSkip, client
  <2>3. Greeting'
    BY <2>1, <2>2 DEF Greeting, Ready
  <2> QED
    BY <2>2, <2>3
<1>4. CASE HandshakeGarbled
  BY <1>4, LinesDiffer, FirstLine DEF HandshakeGarbled, Greeting
<1>5. CASE HandshakeReady
  <2>1. stdout = <<Ready(llm)>> /\ stdin = <<>> /\ phase \in {"serving", "wedged"}
    BY <1>5, LinesDiffer, FirstLine DEF HandshakeReady, Greeting
  <2>2. /\ stdout' = <<>> /\ caps' = llm /\ UNCHANGED <<kinds, spawned, alive, phase, llm>>
        /\ \/ pc' \in {"idle", "failed"} /\ (ChildAlive => pc' = "idle" /\ stdin' = stdin)
           \/ pc' = "await" /\ stdin' = Append(stdin, Current) /\ ChildAlive
    BY <1>5, <2>1, LinesDiffer, FirstLine DEF HandshakeReady, Send
  <2> QED
    BY <2>1, <2>2, FirstLine DEF Quiet, Asked
<1>6. CASE Request
  <2>1. /\ pc = "idle" /\ UNCHANGED <<caps, spawned, alive, phase, llm, stdout>>
        /\ Current' = Current + 1
        /\ \/ pc' = "await" /\ stdin' = Append(stdin, Current + 1) /\ ChildAlive
           \/ pc' = "failed" /\ ~ChildAlive
    BY <1>6 DEF Request, Send, Counted
  <2> QED
    BY <2>1, FirstLine DEF Quiet, Asked
<1>7. CASE ReadReply
  <2>1. stdout = <<Reply(Current)>> /\ stdin = <<>> /\ phase \in {"serving", "wedged"}
    BY <1>7, LinesDiffer, FirstLine DEF ReadReply, Asked
  <2> QED
    BY <1>7, <2>1, FirstLine DEF ReadReply, Quiet
<1>8. CASE ReadNothing
  <2>1. pc = "await" /\ pc' = "failed" /\ UNCHANGED <<caps, spawned, alive, phase, llm, stdin>>
    BY <1>8 DEF ReadNothing
  <2>2. ChildAlive => stdout = <<Garbled>> /\ stdin = <<>> /\ phase \in {"serving", "wedged"}
    BY <1>8, LinesDiffer, FirstLine DEF ReadNothing, Asked
  <2>3. ChildAlive => stdout' = <<>>
    BY <1>8, <2>2, FirstLine DEF ReadNothing
  <2> QED
    BY <2>1, <2>2, <2>3 DEF Quiet
<1>9. CASE Restart \/ DropDone
  BY <1>9 DEF Restart, DropDone
<1>10. CASE GiveUp
  BY <1>10 DEF GiveUp, process, Quiet
<1>11. CASE DropAsk
  BY <1>11, FirstLine DEF DropAsk, Quiet
<1>12. CASE Load
  <2>0. phase = "loading" /\ ChildAlive
    BY <1>12 DEF Load
  <2>1. pc = "handshake" /\ stdout = <<>> /\ stdin = <<>>
    <3>1. pc = "handshake"
      BY <2>0 DEF Quiet, Asked
    <3> QED
      BY <2>0, <3>1 DEF Greeting
  <2>2. PICK c \in BOOLEAN, before \in {<<>>, <<Noise>>, <<Garbled>>} :
          llm' = c /\ stdout' = stdout \o before \o <<Ready(c)>>
    BY <1>12 DEF Load
  <2>3. stdout' \in {<<Ready(llm')>>, <<Noise, Ready(llm')>>, <<Garbled, Ready(llm')>>}
    BY <2>1, <2>2, FirstLine
  <2>4. pc' = pc /\ stdin' = stdin /\ phase' = "serving"
    BY <1>12 DEF Load, client
  <2> QED
    BY <2>1, <2>3, <2>4 DEF Greeting, Ready
<1>13. CASE Serve
  <2>1. pc \in {"await", "reap"}
    BY <1>13 DEF Serve, Greeting, Quiet
  <2>2. /\ UNCHANGED <<client, spawned, llm, stdin, stdout>>
        /\ \/ Head(stdin) = Quit /\ alive' = alive \ {spawned} /\ phase' = phase
           \/ Head(stdin) # Quit /\ alive' = alive /\ phase' = "working" /\ phase = "serving"
    BY <1>13 DEF Serve
  <2>3. stdin # <<>> /\ ChildAlive
    BY <1>13 DEF Serve
  <2>4. CASE pc = "reap"
    BY <2>2, <2>3, <2>4, FirstLine DEF client
  <2>5. CASE pc = "await"
    <3>1. stdin = <<Current>> /\ stdout = <<>>
      BY <2>3, <2>5 DEF Asked
    <3>2. Head(stdin) # Quit
      BY <2>5, <3>1, FirstLine DEF Counted, Quit
    <3> QED
      BY <2>2, <2>5, <3>1, <3>2 DEF Asked, client
  <2> QED
    BY <2>1, <2>4, <2>5
<1>14. CASE Work
  <2>1. pc = "await" /\ stdin = <<Current>> /\ stdout = <<>>
    BY <1>14 DEF Work, Greeting, Quiet, Asked
  <2> QED
    BY <1>14, <2>1 DEF Work, Asked, client
<1>15. CASE Answer
  <2>1. pc = "await" /\ stdin = <<Current>> /\ stdout = <<>>
    BY <1>15 DEF Answer, Greeting, Quiet, Asked
  <2>2. stdin' = <<>> /\ stdout' \in {<<Reply(Current)>>, <<Garbled>>}
    BY <1>15, <2>1, FirstLine DEF Answer
  <2> QED
    BY <1>15, <2>1, <2>2 DEF Answer, Asked, client
<1>16. CASE Crash
  <2>1. ~ChildAlive' /\ UNCHANGED <<client, spawned, phase, llm, stdin>>
        /\ (stdout' = stdout \/ (phase = "replying" /\ stdout' = Append(stdout, Partial)))
    BY <1>16 DEF Crash
  <2>2. CASE stdout' = stdout
    BY <2>1, <2>2 DEF client, Greeting, Asked
  <2>3. CASE phase = "replying" /\ stdout' = Append(stdout, Partial)
    <3>1. pc = "await" => stdout' = <<Partial>>
      BY <1>16, <2>3, FirstLine DEF Asked, Crash
    <3> QED
      BY <2>1, <2>3, <3>1 DEF client, Greeting, Asked
  <2> QED
    BY <2>1, <2>2, <2>3
<1>17. CASE Wedge
  BY <1>17 DEF Wedge, client, Greeting, Quiet, Asked
<1>18. CASE UNCHANGED vars
  BY <1>18 DEF vars, client, process, Greeting, Quiet, Asked
<1> QED
  BY <1>1, <1>2, <1>3, <1>4, <1>5, <1>6, <1>7, <1>8, <1>9, <1>10, <1>11, <1>12, <1>13, <1>14,
     <1>15, <1>16, <1>17, <1>18 DEF Next, ClientStep, ProcessStep

Talking == Counted /\ Conversation

LEMMA TalkingInvariant == Spec => []Talking
<1>1. Init => Talking
  <2>1. Init => pc = "spawn" /\ why = "first" /\ tries = 0 /\ kinds = <<>> /\ returns = <<>>
                /\ llm \in BOOLEAN
    BY DEF Init
  <2> QED
    BY <2>1, SidecarBounds DEF Talking, Counted, Conversation, Calling
<1>2. Processes /\ Talking /\ [Next]_vars => Talking'
  BY CountedStep, ConversationStep DEF Talking
<1> QED
  BY <1>1, <1>2, ProcessesInvariant, PTL DEF Spec

(* has_llm tells what the running process said, across restarts (request,  *)
(* restart).                                                               *)
THEOREM CapsAreCurrent == Spec => []CapsOfRunningProcess
<1>1. Talking => CapsOfRunningProcess
  BY DEF Talking, Conversation, CapsOfRunningProcess
<1> QED
  BY <1>1, TalkingInvariant, PTL

----------------------------------------------------------------------------
(* The service.                                                            *)

Up == ~(why # "restart" /\ pc \in {"spawn", "handshake", "waitExit", "fatal"})

LEMMA ServiceStep ==
    ASSUME Processes, Talking, [Next]_vars
    PROVE  [Service!Next]_(Service!vars)
<1> USE DEF Talking, Counted, Calling, Current, Up
<1>n. Len(kinds) \in Nat /\ Len(returns) \in Nat
  OBVIOUS
<1>1. ASSUME UNCHANGED <<Up, kinds, returns, caps>> PROVE [Service!Next]_(Service!vars)
  BY <1>1 DEF Service!vars
<1>2. ASSUME UNCHANGED <<Up, kinds, caps>>, Calling, returns' = Append(returns, {})
      PROVE  Service!Return
  BY <1>2, <1>n DEF Service!Return, Service!Idle
<1>3. ASSUME pc \in {"spawn", "handshake", "waitExit"}, SpawnFailed, UNCHANGED <<kinds, caps>>
      PROVE  [Service!Next]_(Service!vars)
  <2>1. CASE why = "restart"
    <3>1. why' = why /\ pc' = "idle" /\ returns' = Append(returns, {})
      BY <1>3, <2>1 DEF SpawnFailed
    <3> QED
      BY <1>2, <1>3, <2>1, <3>1 DEF Service!Next
  <2>2. CASE why # "restart"
    <3>1. pc' \in {"spawn", "fatal"} /\ why' # "restart" /\ returns' = returns
      BY <1>3, <2>2 DEF SpawnFailed
    <3> QED
      BY <1>1, <1>3, <2>2, <3>1
  <2> QED
    BY <2>1, <2>2
<1>4. CASE SpawnError \/ HandshakeEof
  BY <1>3, <1>4 DEF SpawnError, HandshakeEof
<1>5. CASE Spawn
  BY <1>1, <1>5 DEF Spawn
<1>6. CASE HandshakeSkip \/ HandshakeGarbled
  BY <1>1, <1>6 DEF HandshakeSkip, HandshakeGarbled, client
<1>7. CASE HandshakeReady
  <2>1. /\ pc = "handshake" /\ caps' = llm /\ UNCHANGED <<why, kinds, returns>>
        /\ pc' \in {"idle", "await", "failed"}
    BY <1>7, LinesDiffer, FirstLine DEF HandshakeReady, Send, Conversation, Greeting
  <2>2. CASE why = "restart"
    <3>1. Service!Restart
      BY <1>n, <2>1, <2>2 DEF Service!Restart, Service!Idle
    <3> QED
      BY <3>1 DEF Service!Next
  <2>3. CASE why # "restart"
    <3>1. Service!Start
      BY <2>1, <2>3 DEF Service!Start
    <3> QED
      BY <3>1 DEF Service!Next
  <2> QED
    BY <2>2, <2>3
<1>8. CASE Request
  <2>1. PICK k \in {"transcribe", "learn"} : kinds' = Append(kinds, k)
    BY <1>8 DEF Request
  <2>2. pc = "idle" /\ pc' \in {"await", "failed"} /\ UNCHANGED <<why, returns, caps>>
    BY <1>8 DEF Request, Send
  <2>3. Service!Call
    BY <1>n, <2>1, <2>2 DEF Service!Call, Service!Idle
  <2> QED
    BY <2>3 DEF Service!Next
<1>9. CASE ReadReply
  <2>1. /\ pc = "await" /\ pc' = "idle" /\ UNCHANGED <<why, kinds, caps>>
        /\ returns' = Append(returns, {Head(stdout).to})
    BY <1>9 DEF ReadReply
  <2>2. Head(stdout) = Reply(Current)
    BY <1>9, LinesDiffer, FirstLine DEF ReadReply, Conversation, Asked
  <2>3. returns' = Append(returns, {Len(kinds)})
    BY <2>1, <2>2, LinesDiffer
  <2>4. Service!Return
    BY <1>n, <2>1, <2>3 DEF Service!Return, Service!Idle
  <2> QED
    BY <2>4 DEF Service!Next
<1>10. CASE GiveUp
  BY <1>2, <1>10 DEF GiveUp, Service!Next
<1>11. CASE ReadNothing \/ Restart \/ DropAsk \/ DropDone
  BY <1>1, <1>11 DEF ReadNothing, Restart, DropAsk, DropDone
<1>12. CASE Load \/ Serve \/ Work \/ Answer \/ Crash \/ Wedge
  BY <1>1, <1>12 DEF Load, Serve, Work, Answer, Crash, Wedge, client
<1>13. CASE UNCHANGED vars
  BY <1>1, <1>13 DEF vars, client
<1> QED
  BY <1>4, <1>5, <1>6, <1>7, <1>8, <1>9, <1>10, <1>11, <1>12, <1>13 DEF Next, ClientStep, ProcessStep

(* The client implements SidecarService: a return is the whole reply to    *)
(* its own request, or nothing (Sidecar::request, read_reply).             *)
THEOREM ClientImplements == Spec => ImplementsService
<1>1. Init => Service!Init
  BY DEF Init, Service!Init
<1>2. Processes /\ Talking /\ [Next]_vars => [Service!Next]_(Service!vars)
  BY ServiceStep
<1> QED
  BY <1>1, <1>2, ProcessesInvariant, TalkingInvariant, PTL
     DEF Spec, ImplementsService, Service!Spec

----------------------------------------------------------------------------
(* The dictionary file.                                                    *)

\* How often the request in work can have been appended: once per try, and by
\* now at least once where it was answered.
Appends ==
    /\ saved \in [Calls -> Nat]
    /\ \A r \in Calls : r > Len(kinds) => saved[r] = 0
    /\ \A r \in 1..Len(returns) : saved[r] <= 2
    /\ AckedLearnSaved
    /\ Calling => tries \in {1, 2} /\ saved[Current] <= tries
    /\ pc \in {"spawn", "handshake", "waitExit"} /\ why = "restart" => tries = 1
    /\ pc = "await" /\ stdout = <<>> /\ ChildAlive /\ phase \in {"serving", "working"} =>
            saved[Current] <= tries - 1
    /\ pc = "await" /\ kinds[Current] = "learn"
       /\ (stdout = <<Reply(Current)>> \/ (ChildAlive /\ phase = "replying")) =>
            saved[Current] >= 1

\* What concerns the requests already returned or not yet made.
Past ==
    /\ saved \in [Calls -> Nat]
    /\ \A r \in Calls : r > Len(kinds) => saved[r] = 0
    /\ \A r \in 1..Len(returns) : saved[r] <= 2
    /\ AckedLearnSaved

\* A request returns.
LEMMA Returned ==
    ASSUME Counted, Appends, Calling, NEW x, returns' = Append(returns, x),
           UNCHANGED <<kinds, saved>>, pc' = "idle",
           x # {} /\ kinds[Current] = "learn" => saved[Current] >= 1
    PROVE  Appends'
<1>1. /\ Len(returns) \in Nat /\ Current = Len(returns) + 1 /\ Len(returns') = Current
      /\ returns'[Current] = x /\ \A r \in 1..Len(returns) : returns'[r] = returns[r]
      /\ Current \in Calls /\ saved[Current] \in Nat
  BY SidecarBounds DEF Counted, Current, Calls, Appends
<1>2. saved[Current] <= 2
  BY <1>1 DEF Appends
<1>3. \A r \in 1..Len(returns') : r \in 1..Len(returns) \/ r = Current
  BY <1>1
<1>4. AckedLearnSaved'
  BY <1>1, <1>2, <1>3 DEF Appends, AckedLearnSaved
<1> QED
  BY <1>1, <1>2, <1>3, <1>4 DEF Appends, Calling

LEMMA AppendsStep ==
    ASSUME Processes, Talking, Appends, [Next]_vars PROVE Appends'
<1>0. /\ Counted /\ Conversation
      /\ Len(returns) \in Nat /\ Len(kinds) \in Nat
      /\ Calling => Current \in Calls /\ Current = Len(returns) + 1 /\ saved[Current] \in Nat
      /\ stdout \in {<<Reply(Current)>>, <<Garbled>>, <<Partial>>} => stdout # <<>>
      /\ <<Garbled>> # <<Reply(Current)>> /\ <<Partial>> # <<Reply(Current)>>
  <2>1. <<Garbled>> # <<Reply(Current)>> /\ <<Partial>> # <<Reply(Current)>>
    <3>1. Garbled # Reply(Current) /\ Partial # Reply(Current)
      BY LinesDiffer
    <3> QED
      BY <3>1
  <2>2. Calling => Current \in Calls /\ Current = Len(returns) + 1 /\ saved[Current] \in Nat
    BY SidecarBounds DEF Talking, Counted, Current, Calls, Appends
  <2>3. stdout \in {<<Reply(Current)>>, <<Garbled>>, <<Partial>>} => stdout # <<>>
    BY FirstLine
  <2>4. Counted /\ Conversation
    BY DEF Talking
  <2>5. Len(returns) \in Nat /\ Len(kinds) \in Nat
    BY <2>4 DEF Counted
  <2> QED
    BY <2>1, <2>2, <2>3, <2>4, <2>5
<1>1. ASSUME UNCHANGED <<kinds, returns, saved>> PROVE Past'
  BY <1>1 DEF Appends, Past, AckedLearnSaved
<1>2. ASSUME pc \in {"spawn", "handshake", "waitExit"}, SpawnFailed,
             UNCHANGED <<kinds, tries, saved>>
      PROVE  Appends'
  <2>1. CASE why = "restart"
    BY <1>0, <1>2, <2>1, Returned DEF SpawnFailed, Calling
  <2>2. CASE why # "restart"
    <3>1. returns' = returns /\ ~Calling' /\ pc' \in {"spawn", "fatal"} /\ why' # "restart"
      BY <1>2, <2>2 DEF SpawnFailed, Calling
    <3> QED
      BY <1>1, <1>2, <3>1 DEF Appends, Past
  <2> QED
    BY <2>1, <2>2
<1>3. CASE SpawnError \/ HandshakeEof
  BY <1>2, <1>3 DEF SpawnError, HandshakeEof
<1>4. CASE Spawn \/ HandshakeSkip \/ HandshakeGarbled
  <2>1. UNCHANGED <<kinds, returns, saved, tries, why>> /\ pc \in {"spawn", "handshake"}
        /\ pc' \in {"handshake", "waitExit"}
    BY <1>4 DEF Spawn, HandshakeSkip, HandshakeGarbled, client
  <2> QED
    BY <1>1, <2>1 DEF Appends, Past, Calling, Current
<1>5. CASE HandshakeReady
  <2>1. /\ UNCHANGED <<kinds, returns, saved, why, phase>> /\ pc = "handshake"
        /\ IF why = "restart" THEN tries' = 2 /\ pc' \in {"await", "failed"}
                              ELSE tries' = tries /\ pc' = "idle"
    BY <1>5 DEF HandshakeReady, Send
  <2>2. stdout' = <<>> /\ phase \in {"serving", "wedged"}
    <3>1. stdout # <<>> /\ Head(stdout).line = "ready" /\ stdout' = Tail(stdout) /\ Greeting
      BY <1>0, <1>5 DEF HandshakeReady, Conversation
    <3>2. stdout = <<Ready(llm)>> /\ phase \in {"serving", "wedged"}
      BY <3>1, LinesDiffer, FirstLine DEF Greeting
    <3> QED
      BY <3>1, <3>2, FirstLine
  <2>3. <<Reply(Current)>>' # <<>>
    BY FirstLine
  <2> QED
    BY <1>0, <1>1, <2>1, <2>2, <2>3 DEF Appends, Past, Calling, Current
<1>6. CASE Request
  <2>1. PICK k \in {"transcribe", "learn"} : kinds' = Append(kinds, k)
    BY <1>6 DEF Request
  <2>2. /\ pc = "idle" /\ pc' \in {"await", "failed"} /\ tries' = 1 /\ Len(kinds) < MaxCalls
        /\ pc' = "await" => ChildAlive
        /\ UNCHANGED <<why, returns, saved, phase, stdout>>
    BY <1>6 DEF Request, Send, Current
  <2>3. /\ Len(kinds') = Len(kinds) + 1 /\ Len(kinds) = Len(returns)
        /\ \A r \in 1..Len(kinds) : kinds'[r] = kinds[r]
    BY <1>0, <2>1, <2>2 DEF Counted, Calling
  <2>4. saved[Current'] = 0 /\ Current' \in Calls
    BY <1>0, <2>2, <2>3, SidecarBounds DEF Current, Calls, Appends
  <2>5. pc' = "await" => phase' \in {"serving", "wedged"} /\ stdout' = <<>>
    BY <1>0, <2>2 DEF Conversation, Quiet
  <2>6. Past'
    BY <1>0, <2>2, <2>3 DEF Appends, Past, AckedLearnSaved
  <2>7. <<Reply(Current)>>' # <<>>
    BY FirstLine
  <2> QED
    BY <2>2, <2>4, <2>5, <2>6, <2>7 DEF Appends, Past
<1>7. CASE ReadReply
  <2>1. /\ pc = "await" /\ pc' = "idle" /\ UNCHANGED <<kinds, saved>>
        /\ returns' = Append(returns, {Head(stdout).to})
    BY <1>7 DEF ReadReply
  <2>2. stdout = <<Reply(Current)>>
    BY <1>0, <1>7, LinesDiffer, FirstLine DEF ReadReply, Conversation, Asked
  <2>3. kinds[Current] = "learn" => saved[Current] >= 1
    BY <2>1, <2>2 DEF Appends
  <2> QED
    BY <1>0, <2>1, <2>3, Returned DEF Calling
<1>8. CASE GiveUp
  BY <1>0, <1>8, Returned DEF GiveUp, Calling
<1>9. CASE ReadNothing \/ Restart \/ DropAsk \/ DropDone
  <2>1. /\ UNCHANGED <<kinds, returns, saved, tries>>
        /\ \/ pc = "await" /\ pc' = "failed"
           \/ pc = "failed" /\ pc' = "spawn" /\ tries = 1
           \/ pc' \in {"reap", "gone"}
    BY <1>9 DEF ReadNothing, Restart, DropAsk, DropDone
  <2> QED
    BY <1>0, <1>1, <2>1 DEF Appends, Past, Calling, Current
<1>10. CASE Load
  <2>1. UNCHANGED <<client, saved>> /\ pc # "await"
    BY <1>0, <1>10 DEF Load, Conversation, Asked
  <2> QED
    BY <1>1, <2>1 DEF client, Appends, Past, Calling, Current
<1>11. CASE Serve
  <2>1. UNCHANGED <<client, saved, stdout>> /\ phase' \in {phase, "working"} /\ alive' \subseteq alive
        /\ spawned' = spawned /\ phase = "serving"
    BY <1>11 DEF Serve
  <2> QED
    BY <1>1, <2>1 DEF client, Appends, Past, Calling, Current, ChildAlive
<1>12. CASE Work
  <2>1. pc = "await" /\ stdin = <<Current>> /\ stdout = <<>> /\ ChildAlive /\ phase = "working"
    BY <1>0, <1>12 DEF Work, Processes, Conversation, Greeting, Quiet, Asked, ChildAlive
  <2>2. /\ UNCHANGED <<client, stdout>> /\ phase' = "replying"
        /\ saved' = IF kinds[Current] = "learn" THEN [saved EXCEPT ![Current] = @ + 1] ELSE saved
    BY <1>12, <2>1, FirstLine DEF Work
  <2>3. Calling /\ saved[Current] <= tries - 1 /\ tries \in {1, 2}
    BY <2>1 DEF Calling, Appends
  <2>4. /\ saved' \in [Calls -> Nat] /\ saved'[Current] <= tries
        /\ kinds[Current] = "learn" => saved'[Current] >= 1
        /\ \A r \in Calls \ {Current} : saved'[r] = saved[r]
    BY <1>0, <2>2, <2>3 DEF Appends
  <2>5. 1..Len(returns) \subseteq Calls \ {Current}
    BY <1>0, <2>3, SidecarBounds DEF Calls
  <2>6. Past'
    BY <1>0, <2>2, <2>3, <2>4, <2>5 DEF client, Appends, Past, AckedLearnSaved, Current
  <2> QED
    BY <2>1, <2>2, <2>3, <2>4, <2>6 DEF client, Appends, Past, Calling, Current
<1>13. CASE Answer
  <2>1. pc = "await" /\ stdin = <<Current>> /\ stdout = <<>> /\ ChildAlive /\ phase = "replying"
    BY <1>0, <1>13 DEF Answer, Processes, Conversation, Greeting, Quiet, Asked, ChildAlive
  <2>2. /\ UNCHANGED <<client, saved>> /\ phase' = "serving"
        /\ stdout' \in {<<Reply(Current)>>, <<Garbled>>}
    BY <1>13, <2>1, FirstLine DEF Answer
  <2>3. stdout' # <<>>
    BY <2>2, FirstLine
  <2> QED
    BY <1>1, <2>1, <2>2, <2>3 DEF client, Appends, Past, Calling, Current
<1>14. CASE Crash
  <2>1. /\ UNCHANGED <<client, saved, phase>> /\ ~ChildAlive'
        /\ stdout' = stdout \/ (phase = "replying" /\ ChildAlive /\ stdout' = Append(stdout, Partial))
    BY <1>14 DEF Crash, ChildAlive
  <2>2. pc = "await" /\ stdout' # stdout => stdout' = <<Partial>>
    BY <1>0, <2>1, FirstLine DEF Conversation, Asked
  <2>3. pc = "await" /\ stdout' = <<Reply(Current)>>' => stdout = <<Reply(Current)>>
    BY <1>0, <2>1, <2>2 DEF client, Current
  <2> QED
    BY <1>1, <2>1, <2>3 DEF client, Appends, Past, Calling, Current
<1>15. CASE Wedge
  BY <1>1, <1>15 DEF Wedge, client, Appends, Past, Calling, Current, ChildAlive
<1>16. CASE UNCHANGED vars
  BY <1>1, <1>16 DEF vars, client, process, Appends, Past, Calling, Current, ChildAlive
<1> QED
  BY <1>3, <1>4, <1>5, <1>6, <1>7, <1>8, <1>9, <1>10, <1>11, <1>12, <1>13, <1>14, <1>15, <1>16
     DEF Next, ClientStep, ProcessStep

(* An acknowledged fix is in the file, twice at most (learn, request).     *)
THEOREM AckedIsSaved == Spec => []AckedLearnSaved
<1>1. Init => Appends
  BY DEF Init, Appends, Calling, AckedLearnSaved
<1>2. Processes /\ Talking /\ Appends /\ [Next]_vars => Appends'
  BY AppendsStep
<1>3. Appends => AckedLearnSaved
  BY DEF Appends
<1> QED
  BY <1>1, <1>2, <1>3, ProcessesInvariant, TalkingInvariant, PTL DEF Spec

----------------------------------------------------------------------------
(* Types.                                                                  *)

\* What the invariants above leave open.
Remaining ==
    /\ why \in {"first", "second", "restart"}
    /\ caps \in BOOLEAN
    /\ alive \subseteq 1..spawned
    /\ phase \in {"loading", "serving", "working", "replying", "wedged"}
    /\ stdin \in Seq(Calls \cup {Quit})
    /\ stdout \in Seq(Lines)
    /\ faults \in 0..MaxFaults

LEMMA LineTypes ==
    /\ \A c \in BOOLEAN : Ready(c) \in Lines
    /\ \A r \in Calls : Reply(r) \in Lines
    /\ Noise \in Lines /\ Partial \in Lines /\ Garbled \in Lines
<1>1. \A c \in BOOLEAN : c = TRUE \/ c = FALSE
  OBVIOUS
<1> QED
  BY <1>1 DEF Lines

LEMMA HeadReady == ASSUME Talking, HandshakeReady PROVE caps' \in BOOLEAN
<1>1. pc = "handshake" /\ stdout # <<>> /\ Head(stdout).line = "ready" /\ caps' = Head(stdout).caps
  BY DEF HandshakeReady
<1>2. Head(stdout) = Ready(llm)
  BY <1>1, LinesDiffer, FirstLine DEF Talking, Conversation, Greeting
<1> QED
  BY <1>1, <1>2, LinesDiffer DEF Talking, Counted

LEMMA RemainingStep ==
    ASSUME Processes, Talking, Remaining, [Next]_vars PROVE Remaining'
<1> USE DEF Remaining
<1>1. faults' \in 0..MaxFaults
  <2> USE SidecarBounds DEF Fault
  <2>0. faults' = faults \/ (faults < MaxFaults /\ faults' = faults + 1) => faults' \in 0..MaxFaults
    OBVIOUS
  <2>1. CASE SpawnError \/ Answer \/ Crash \/ Wedge
    BY <2>0, <2>1 DEF SpawnError, Answer, Crash, Wedge
  <2>4. CASE Load
    <3>1. faults' = faults \/ (faults < MaxFaults /\ faults' = faults + 1)
      BY <2>4, Zenon DEF Load
    <3> QED
      BY <2>0, <3>1
  <2>2. CASE Spawn \/ HandshakeSkip \/ HandshakeReady \/ HandshakeGarbled \/ HandshakeEof \/ Request
             \/ ReadReply \/ ReadNothing \/ Restart \/ GiveUp \/ DropAsk \/ DropDone
    BY <2>2 DEF Spawn, HandshakeSkip, HandshakeReady, HandshakeGarbled, HandshakeEof, Request,
                ReadReply, ReadNothing, Restart, GiveUp, DropAsk, DropDone
  <2>3. CASE Serve \/ Work \/ UNCHANGED vars
    BY <2>3 DEF Serve, Work, vars
  <2> QED
    BY <2>1, <2>2, <2>3, <2>4 DEF Next, ClientStep, ProcessStep
<1>2. caps' \in BOOLEAN
  <2>1. CASE HandshakeReady
    BY <2>1, HeadReady
  <2>2. CASE ~HandshakeReady
    BY <2>2 DEF Next, ClientStep, ProcessStep, Spawn, SpawnError, HandshakeSkip, HandshakeGarbled,
                HandshakeEof, Request, ReadReply, ReadNothing, Restart, GiveUp, DropAsk, DropDone,
                Load, Serve, Work, Answer, Crash, Wedge, vars, client
  <2> QED
    BY <2>1, <2>2
<1>3. why' \in {"first", "second", "restart"}
  BY DEF Next, ClientStep, ProcessStep, Spawn, SpawnError, SpawnFailed, HandshakeSkip, HandshakeReady,
         HandshakeGarbled, HandshakeEof, Request, ReadReply, ReadNothing, Restart, GiveUp, DropAsk,
         DropDone, Load, Serve, Work, Answer, Crash, Wedge, vars, client
<1>4. alive' \subseteq 1..spawned'
  <2>1. CASE Spawn
    BY <2>1 DEF Spawn, Processes
  <2>2. CASE ~Spawn
    <3>1. spawned' = spawned /\ alive' \subseteq alive
      BY <2>2 DEF Next, ClientStep, ProcessStep, SpawnError, SpawnFailed, HandshakeSkip,
                  HandshakeReady, HandshakeGarbled, HandshakeEof, Request, ReadReply, ReadNothing,
                  Restart, GiveUp, DropAsk, DropDone, Load, Serve, Work, Answer, Crash, Wedge,
                  vars, client, process
    <3> QED
      BY <3>1
  <2> QED
    BY <2>1, <2>2
<1>5. phase' \in {"loading", "serving", "working", "replying", "wedged"}
  BY DEF Next, ClientStep, ProcessStep, Spawn, SpawnError, HandshakeSkip, HandshakeReady,
         HandshakeGarbled, HandshakeEof, Request, ReadReply, ReadNothing, Restart, GiveUp, DropAsk,
         DropDone, Load, Serve, Work, Answer, Crash, Wedge, vars, process
<1>6. stdin' \in Seq(Calls \cup {Quit})
  <2>0. Len(kinds) \in Nat /\ Len(kinds) <= MaxCalls
        /\ (Calling => Current \in Calls) /\ (Current < MaxCalls => Current + 1 \in Calls)
    BY SidecarBounds DEF Talking, Counted, Current, Calls
  <2>1. CASE HandshakeReady
    <3>1. stdin' = stdin \/ (Calling /\ stdin' = Append(stdin, Current))
      BY <2>1 DEF HandshakeReady, Send, Calling
    <3> QED
      BY <2>0, <3>1
  <2>2. CASE Request
    <3>1. stdin' = stdin \/ (Current < MaxCalls /\ stdin' = Append(stdin, Current + 1))
      BY <2>2 DEF Request, Send
    <3> QED
      BY <2>0, <3>1
  <2>3. CASE DropAsk
    BY <2>3 DEF DropAsk
  <2>4. CASE Answer
    BY <2>4 DEF Answer, Processes, Conversation, Talking, Greeting, Quiet, Asked, ChildAlive
  <2>5. CASE ~(HandshakeReady \/ Request \/ DropAsk \/ Answer)
    <3>1. stdin' = stdin \/ stdin' = <<>>
      BY <2>5 DEF Next, ClientStep, ProcessStep, Spawn, SpawnError, HandshakeSkip, HandshakeGarbled,
                  HandshakeEof, ReadReply, ReadNothing, Restart, GiveUp, DropDone, Load, Serve, Work,
                  Crash, Wedge, vars, process
    <3> QED
      BY <3>1, EmptySeq
  <2> QED
    BY <2>1, <2>2, <2>3, <2>4, <2>5
<1>7. stdout' \in Seq(Lines)
  <2>1. CASE HandshakeSkip \/ HandshakeReady \/ HandshakeGarbled \/ ReadReply \/ ReadNothing
    <3>1. stdout' = <<>> \/ (stdout # <<>> /\ stdout' = Tail(stdout))
      BY <2>1 DEF HandshakeSkip, HandshakeReady, HandshakeGarbled, ReadReply, ReadNothing
    <3>2. <<>> \in Seq(Lines)
      BY EmptySeq
    <3>3. stdout # <<>> => Tail(stdout) \in Seq(Lines)
      OBVIOUS
    <3> QED
      BY <3>1, <3>2, <3>3, Zenon
  <2>2. CASE Load
    <3>1. PICK c \in BOOLEAN, before \in {<<>>, <<Noise>>, <<Garbled>>} :
            stdout' = stdout \o before \o <<Ready(c)>>
      BY <2>2 DEF Load
    <3>2. before \in Seq(Lines) /\ <<Ready(c)>> \in Seq(Lines)
      <4>1. <<Noise>> \in Seq(Lines) /\ <<Garbled>> \in Seq(Lines) /\ <<Ready(c)>> \in Seq(Lines)
        BY LineTypes
      <4>2. <<>> \in Seq(Lines)
        BY EmptySeq
      <4> QED
        BY <4>1, <4>2
    <3>3. stdout \o before \in Seq(Lines)
      BY <3>2
    <3> QED
      BY <3>1, <3>2, <3>3
  <2>3. CASE Answer
    <3>1. PICK l : stdout' = Append(stdout, l) /\ l \in {Reply(Head(stdin)), Garbled}
      BY <2>3 DEF Answer
    <3>2. stdin = <<Current>> /\ Calling
      BY <2>3 DEF Answer, Processes, Conversation, Talking, Greeting, Quiet, Asked, ChildAlive, Calling
    <3>3. Current \in Calls
      BY <3>2, SidecarBounds DEF Talking, Counted, Current, Calls
    <3>4. l \in Lines
      BY <3>1, <3>2, <3>3, FirstLine, LineTypes
    <3> QED
      BY <3>1, <3>4
  <2>4. CASE Crash
    BY <2>4, LineTypes DEF Crash
  <2>5. CASE ~(HandshakeSkip \/ HandshakeReady \/ HandshakeGarbled \/ ReadReply \/ ReadNothing
               \/ Load \/ Answer \/ Crash)
    <3>1. stdout' = stdout \/ stdout' = <<>>
      BY <2>5 DEF Next, ClientStep, ProcessStep, Spawn, SpawnError, HandshakeEof, Request, Restart,
                  GiveUp, DropAsk, DropDone, Serve, Work, Wedge, vars, process
    <3> QED
      BY <3>1, EmptySeq
  <2> QED
    BY <2>1, <2>2, <2>3, <2>4, <2>5
<1> QED
  BY <1>1, <1>2, <1>3, <1>4, <1>5, <1>6, <1>7

(* Every variable stays in its range, whatever the bounds: a request is in *)
(* the file twice at most, at any time, and there is no third try.         *)
THEOREM TypeInvariant == Spec => []TypeOK
<1>1. Init => Remaining
  <2>1. <<>> \in Seq(Calls \cup {Quit}) /\ <<>> \in Seq(Lines)
    BY EmptySeq
  <2>2. ASSUME Init PROVE alive \subseteq 1..spawned /\ faults \in 0..MaxFaults
    BY <2>2, SidecarBounds DEF Init
  <2> QED
    BY <2>1, <2>2, Zenon DEF Init, Remaining
<1>2. Processes /\ Talking /\ Remaining /\ [Next]_vars => Remaining'
  BY RemainingStep
<1>3. Init => Appends
  BY DEF Init, Appends, Calling, AckedLearnSaved
<1>4. Processes /\ Talking /\ Appends /\ [Next]_vars => Appends'
  BY AppendsStep
<1>5. Processes /\ Talking /\ Appends /\ Remaining => TypeOK
  <2> SUFFICES ASSUME Processes, Talking, Appends, Remaining PROVE TypeOK
    OBVIOUS
  <2>1. \A r \in Calls : saved[r] \in 0..2
    <3> TAKE r \in Calls
    <3>1. r > Len(kinds) \/ r \in 1..Len(returns) \/ (Calling /\ r = Current)
      BY SidecarBounds DEF Talking, Counted, Current, Calls
    <3> QED
      BY <3>1 DEF Appends
  <2>2. saved \in [Calls -> 0..2]
    BY <2>1 DEF Appends
  <2> QED
    BY <2>2 DEF Processes, Talking, Counted, Remaining, TypeOK
<1> QED
  BY <1>1, <1>2, <1>3, <1>4, <1>5, ProcessesInvariant, TalkingInvariant, PTL DEF Spec
=============================================================================
