-------------------------- MODULE RunCommand_proofs -------------------------
(***************************************************************************)
(* Proofs about the run command, for every set of environments and every   *)
(* bound on faults and losses.  What the paired route guarantees is proved *)
(* in RootWork_proofs and carries over: a step of the command is a step of *)
(* the paired route or leaves it alone.  What the fresh route guarantees,  *)
(* and that the routes exclude each other, is proved here.                 *)
(***************************************************************************)
EXTENDS RunCommand, RootWork_proofs

\* The broker as it was before the client asked it for an effect.
Untouched == broker.children = 0 /\ broker.executions = 0 /\ late = {}

\* What the client's step says of the effects at the broker: each of X, ^ and
\* v happened at most once, counting the frame that may still be served.
Effects ==
    /\ fresh.at \in {"start", "none", "probe", "command", "register"} => Untouched
    /\ broker.children \in {0, 1} /\ ("X" \in late => broker.children = 0)
    /\ fresh.at \in {"recover", "readback", "consume", "unavailable"} =>
        broker.executions = 0 /\ "^" \notin late
    /\ fresh.at = "readK" /\ fresh.error = "drift" => broker.executions = 0 /\ "^" \notin late
    /\ broker.executions \in {0, 1} /\ ("^" \in late => broker.executions = 0)
    /\ broker.phase = "absent" <=> broker.executions = 0
    /\ fresh.at \in {"consumed", "query", "accept", "accept again", "begin",
                     "read publication", "verify", "write", "done"} =>
        broker.executions = 1
    /\ fresh.at \in {"accept", "accept again", "begin", "verify"} => broker.phase = "drained"
    /\ fresh.at \notin {"read publication", "verify", "write", "done", "error"} =>
        broker.begun = 0 /\ "v" \notin late
    /\ fresh.at = "verify" => broker.begun = 1 /\ "v" \notin late
    /\ fresh.at \in {"write", "done"} /\ fresh.result = "streams" =>
        broker.begun = 1 /\ "v" \notin late /\ broker.phase = "drained"

\* The routes exclude each other: a command past the fresh route has found
\* none, and the paired route is entered last.
Routes ==
    /\ command \notin {"fresh", "fresh owner", "returned"} => fresh.at = "none"
    /\ handle # "none" => fresh.at = "none" /\ command \in {"persist", "route", "returned"}
    /\ command # "route" => client.at = "select" /\ request = "none"

\* The types of the fresh route's records.
FreshStep ==
    {"start", "none", "probe", "command", "register", "recover", "readback",
     "consume", "readK", "consumed", "query", "accept", "accept again",
     "begin", "read publication", "verify", "write", "done", "unavailable", "error"}

ClientRecord ==
    [at : FreshStep, error : {"none", "drift", "other"},
     result : {"none", "dispatch", "unknown", "streams"}]

BrokerType ==
    [children : Nat, executions : Nat,
     phase : {"absent", "pending", "exited", "drained", "unknown"},
     source : BOOLEAN, begun : Nat]

\* What the broker's service of a frame changes.
LEMMA Served ==
    ASSUME F!FreshType, NEW frame
    PROVE  /\ F!Serve(broker, frame) \in BrokerType
           /\ F!Serve(broker, frame).children =
                IF frame = "X" THEN broker.children + 1 ELSE broker.children
           /\ F!Serve(broker, frame).executions =
                IF frame = "^" THEN broker.executions + 1 ELSE broker.executions
           /\ F!Serve(broker, frame).phase =
                IF frame = "^" THEN "pending" ELSE broker.phase
           /\ F!Serve(broker, frame).begun =
                IF frame = "v" THEN broker.begun + 1 ELSE broker.begun
<1>0. broker \in BrokerType
  BY DEF F!FreshType, BrokerType
<1>1. CASE frame = "X"
  BY <1>0, <1>1 DEF F!Serve, BrokerType
<1>2. CASE frame = "^"
  <2>1. F!Serve(broker, frame) =
            [broker EXCEPT !.executions = broker.executions + 1, !.phase = "pending"]
    BY <1>0, <1>2 DEF F!Serve, BrokerType
  <2>2. PICK b : b = F!Serve(broker, frame)
    OBVIOUS
  <2>3. /\ b \in BrokerType /\ b.children = broker.children
        /\ b.executions = broker.executions + 1 /\ b.phase = "pending"
        /\ b.begun = broker.begun
    <3>1. PICK n \in Nat : n = broker.executions + 1
      BY <1>0 DEF BrokerType
    <3>2. b = [broker EXCEPT !.executions = n, !.phase = "pending"]
      BY <2>1, <2>2, <3>1
    <3>3. b \in BrokerType
      BY <1>0, <3>2 DEF BrokerType
    <3>4. b.children = broker.children /\ b.executions = n /\ b.begun = broker.begun
      BY <1>0, <3>2 DEF BrokerType
    <3>5. b.phase = "pending"
      BY <1>0, <3>2 DEF BrokerType
    <3>6. QED BY <3>1, <3>3, <3>4, <3>5
  <2>4. QED BY <1>2, <2>2, <2>3
<1>3. CASE frame = "%"
  BY <1>0, <1>3 DEF F!Serve, BrokerType
<1>4. CASE frame = "v"
  BY <1>0, <1>4 DEF F!Serve, BrokerType
<1>5. CASE frame \notin {"X", "^", "%", "v"}
  BY <1>0, <1>5 DEF F!Serve, BrokerType
<1>6. QED BY <1>1, <1>2, <1>3, <1>4, <1>5

\* What becomes of a frame: it is served, or has no effect, or is given up and
\* may be served later.
LEMMA FrameSent ==
    ASSUME F!FreshType, NEW frame, F!Answered(frame) \/ F!Refused(frame) \/ F!Failed(frame)
    PROVE  /\ \/ broker' = F!Serve(broker, frame) /\ F!Servable(broker, frame) /\ late' = late
              \/ broker' = broker /\ late' = late
              \/ broker' = broker /\ frame \in {"X", "^", "%", "v"} /\ late' = late \cup {frame}
           /\ broker' \in BrokerType /\ late' \subseteq {"X", "^", "%", "v"}
           /\ losses' \in 0 .. MaxLosses
<1>0. broker \in BrokerType /\ late \subseteq {"X", "^", "%", "v"} /\ losses \in 0 .. MaxLosses
  BY DEF F!FreshType, BrokerType
<1>1. /\ \/ broker' = F!Serve(broker, frame) /\ F!Servable(broker, frame) /\ late' = late
         \/ broker' = broker /\ late' = late
         \/ broker' = broker /\ frame \in {"X", "^", "%", "v"} /\ late' = late \cup {frame}
      /\ losses' \in 0 .. MaxLosses
  BY <1>0, RunCommandAssumption DEF F!Answered, F!Refused, F!Failed
<1>2. broker' \in BrokerType
  BY <1>0, <1>1, Served
<1>3. late' \subseteq {"X", "^", "%", "v"}
  BY <1>0, <1>1
<1>4. QED BY <1>1, <1>2, <1>3

\* A frame that only asks changes nothing.
LEMMA FrameAsked ==
    ASSUME F!FreshType, NEW frame \in {"?", "c", "9", "u"},
           F!Answered(frame) \/ F!Refused(frame) \/ F!Failed(frame)
    PROVE  broker' = broker /\ late' = late /\ losses' \in 0 .. MaxLosses
<1>1. F!Serve(broker, frame) = broker
  BY DEF F!Serve
<1>2. QED BY <1>1, FrameSent

\* The client's step keeps the types of the fresh route.
LEMMA FreshTypes ==
    ASSUME F!FreshType, F!ClientNext
    PROVE  F!FreshType'
<1>0. /\ fresh \in ClientRecord /\ broker \in BrokerType
      /\ late \subseteq {"X", "^", "%", "v"} /\ losses \in 0 .. MaxLosses
  BY DEF F!FreshType, ClientRecord, FreshStep, BrokerType
<1>1. fresh' \in ClientRecord
  <2>1. CASE F!broker_socket
    BY <1>0, <2>1
       DEF F!broker_socket, F!Step, F!Steps, F!Return, F!Error, ClientRecord, FreshStep
  <2>2. CASE F!ProbeParent
    BY <1>0, <2>2
       DEF F!ProbeParent, F!Step, F!Steps, F!Return, F!Error, ClientRecord, FreshStep
  <2>3. CASE F!BuildCommand
    BY <1>0, <2>3
       DEF F!BuildCommand, F!Step, F!Steps, F!Return, F!Error, F!random_uuid,
           F!workload_environment, F!resolve_execvp_program, F!sealed_command_file,
           ClientRecord, FreshStep
  <2>4. CASE F!register_child
    BY <1>0, <2>4
       DEF F!register_child, F!Step, F!Steps, F!Return, F!Error, ClientRecord, FreshStep
  <2>5. CASE F!RecoverChild
    BY <1>0, <2>5
       DEF F!RecoverChild, F!Step, F!Steps, F!Return, F!Error, ClientRecord, FreshStep
  <2>6. CASE F!ReadChild
    BY <1>0, <2>6 DEF F!ReadChild, F!Step, F!Steps, F!Return, F!Error, ClientRecord, FreshStep
  <2>7. CASE F!ConsumeGrant
    BY <1>0, <2>7
       DEF F!ConsumeGrant, F!Step, F!Steps, F!Return, F!Error, F!workload_environment,
           F!sealed_command_file, ClientRecord, FreshStep
  <2>8. CASE F!ReadExecution
    BY <1>0, <2>8
       DEF F!ReadExecution, F!Step, F!Steps, F!Return, F!Error, ClientRecord, FreshStep
  <2>9. CASE F!Dispatch
    BY <1>0, <2>9 DEF F!Dispatch, F!Step, F!Steps, F!Return, F!Error, ClientRecord, FreshStep
  <2>10. CASE F!AwaitDrained
    BY <1>0, <2>10
       DEF F!AwaitDrained, F!Step, F!Steps, F!Return, F!Error, ClientRecord, FreshStep
  <2>11. CASE F!AcceptSource
    BY <1>0, <2>11
       DEF F!AcceptSource, F!Step, F!Steps, F!Return, F!Error, ClientRecord, FreshStep
  <2>12. CASE F!request_sync_begin
    BY <1>0, <2>12
       DEF F!request_sync_begin, F!Step, F!Steps, F!Return, F!Error, ClientRecord, FreshStep
  <2>13. CASE F!ReadPublication
    BY <1>0, <2>13
       DEF F!ReadPublication, F!Step, F!Steps, F!Return, F!Error, ClientRecord, FreshStep
  <2>14. CASE F!VerifyStreams
    BY <1>0, <2>14
       DEF F!VerifyStreams, F!Step, F!Steps, F!Return, F!Error, F!verify_sync_file,
           ClientRecord, FreshStep
  <2>15. CASE F!write_result
    BY <1>0, <2>15
       DEF F!write_result, F!Step, F!Steps, F!Return, F!Error, ClientRecord, FreshStep
  <2>16. QED BY <2>1, <2>2, <2>3, <2>4, <2>5, <2>6, <2>7, <2>8, <2>9, <2>10, <2>11, <2>12,
    <2>13, <2>14, <2>15 DEF F!ClientNext
<1>2. /\ broker' \in BrokerType
      /\ late' \subseteq {"X", "^", "%", "v"}
      /\ losses' \in 0 .. MaxLosses
  <2>1. CASE F!broker_socket
    BY <1>0, <2>1 DEF F!broker_socket, F!Step, F!Steps, F!Return, F!Error
  <2>2. CASE F!ProbeParent
    BY <1>0, <2>2, FrameAsked DEF F!ProbeParent, F!Step, F!Steps, F!Return, F!Error
  <2>3. CASE F!BuildCommand
    BY <1>0, <2>3
       DEF F!BuildCommand, F!Step, F!Steps, F!Return, F!Error, F!random_uuid,
           F!workload_environment, F!resolve_execvp_program, F!sealed_command_file
  <2>4. CASE F!register_child
    BY <1>0, <2>4, FrameSent DEF F!register_child, F!Step, F!Steps, F!Return, F!Error
  <2>5. CASE F!RecoverChild
    BY <1>0, <2>5, FrameAsked DEF F!RecoverChild, F!Step, F!Steps, F!Return, F!Error
  <2>6. CASE F!ReadChild
    BY <1>0, <2>6, FrameAsked DEF F!ReadChild, F!Step, F!Steps, F!Return, F!Error
  <2>7. CASE F!ConsumeGrant
    BY <1>0, <2>7, FrameSent
       DEF F!ConsumeGrant, F!Step, F!Steps, F!Return, F!Error, F!workload_environment,
           F!sealed_command_file
  <2>8. CASE F!ReadExecution
    BY <1>0, <2>8, FrameAsked DEF F!ReadExecution, F!Step, F!Steps, F!Return, F!Error
  <2>9. CASE F!Dispatch
    BY <1>0, <2>9 DEF F!Dispatch, F!Step, F!Steps, F!Return, F!Error
  <2>10. CASE F!AwaitDrained
    BY <1>0, <2>10, FrameAsked DEF F!AwaitDrained, F!Step, F!Steps, F!Return, F!Error
  <2>11. CASE F!AcceptSource
    BY <1>0, <2>11, FrameSent DEF F!AcceptSource, F!Step, F!Steps, F!Return, F!Error
  <2>12. CASE F!request_sync_begin
    BY <1>0, <2>12, FrameSent DEF F!request_sync_begin, F!Step, F!Steps, F!Return, F!Error
  <2>13. CASE F!ReadPublication
    BY <1>0, <2>13, FrameAsked DEF F!ReadPublication, F!Step, F!Steps, F!Return, F!Error
  <2>14. CASE F!VerifyStreams
    BY <1>0, <2>14 DEF F!VerifyStreams, F!Step, F!Steps, F!Return, F!Error, F!verify_sync_file
  <2>15. CASE F!write_result
    BY <1>0, <2>15 DEF F!write_result, F!Step, F!Steps, F!Return, F!Error
  <2>16. QED BY <2>1, <2>2, <2>3, <2>4, <2>5, <2>6, <2>7, <2>8, <2>9, <2>10, <2>11, <2>12,
    <2>13, <2>14, <2>15 DEF F!ClientNext
<1>3. QED BY <1>1, <1>2 DEF F!FreshType, ClientRecord, FreshStep, BrokerType

\* The client's step keeps the account of its effects.
LEMMA FreshEffects ==
    ASSUME F!FreshType, Effects, F!ClientNext
    PROVE  Effects'
<1>0. /\ fresh \in ClientRecord /\ broker \in BrokerType
      /\ late \subseteq {"X", "^", "%", "v"}
  BY DEF F!FreshType, ClientRecord, FreshStep, BrokerType
<1>1. CASE F!broker_socket
  BY <1>0, <1>1
     DEF F!broker_socket, F!Step, F!Steps, F!Return, F!Error, Effects, Untouched,
         ClientRecord, BrokerType
<1>2. CASE F!ProbeParent
  BY <1>0, <1>2, FrameAsked
     DEF F!ProbeParent, F!Step, F!Steps, F!Return, F!Error, Effects, Untouched,
         ClientRecord, BrokerType
<1>3. CASE F!BuildCommand
  BY <1>0, <1>3
     DEF F!BuildCommand, F!Step, F!Steps, F!Return, F!Error, F!random_uuid,
         F!workload_environment, F!resolve_execvp_program, F!sealed_command_file, Effects,
         Untouched, ClientRecord, BrokerType
<1>4. CASE F!register_child
  <2>1. fresh.at = "register"
    BY <1>4 DEF F!register_child
  <2>2. CASE F!Answered("X") /\ F!Step("readback")
    <3>1. /\ F!Servable(broker, "X")
          /\ late' = late
          /\ broker'.children = broker.children + 1
          /\ broker'.executions = broker.executions
          /\ broker'.phase = broker.phase
          /\ broker'.begun = broker.begun
      BY <2>2, FrameSent, Served DEF F!Answered
    <3>2. QED
      BY <1>0, <2>1, <2>2, <3>1 DEF F!Step, F!Return, Effects, Untouched, ClientRecord,
                                    BrokerType
  <2>3. CASE F!Error("X") /\ F!Step("recover")
    <3>0. F!Refused("X") \/ F!Failed("X")
      BY <2>3 DEF F!Error
    <3>1. \/ /\ F!Servable(broker, "X")
             /\ late' = late
             /\ broker'.children = broker.children + 1
             /\ broker'.executions = broker.executions
             /\ broker'.phase = broker.phase
             /\ broker'.begun = broker.begun
          \/ broker' = broker /\ late' = late
          \/ broker' = broker /\ late' = late \cup {"X"}
      BY <3>0, FrameSent, Served
    <3>2. QED
      BY <1>0, <2>1, <2>3, <3>1 DEF F!Step, Effects, Untouched, ClientRecord, BrokerType
  <2>4. QED BY <1>4, <2>2, <2>3 DEF F!register_child
<1>5. CASE F!RecoverChild
  BY <1>0, <1>5, FrameAsked
     DEF F!RecoverChild, F!Step, F!Steps, F!Return, F!Error, Effects, Untouched,
         ClientRecord, BrokerType
<1>6. CASE F!ReadChild
  BY <1>0, <1>6, FrameAsked
     DEF F!ReadChild, F!Step, F!Steps, F!Return, F!Error, Effects, Untouched, ClientRecord,
         BrokerType
<1>7. CASE F!ConsumeGrant
  <2>1. CASE F!Answered("^") /\ F!Step("consumed")
    <3>1. /\ F!Servable(broker, "^")
          /\ late' = late
          /\ broker'.executions = broker.executions + 1
          /\ broker'.phase = "pending"
          /\ broker'.children = broker.children /\ broker'.begun = broker.begun
      BY <2>1, FrameSent, Served DEF F!Answered
    <3>2. QED
      BY <1>0, <1>7, <2>1, <3>1
         DEF F!ConsumeGrant, F!Step, Effects, Untouched, ClientRecord, BrokerType
  <2>2. CASE /\ F!Refused("^")
             /\ \E e \in {"drift", "other"} :
                   fresh' = [fresh EXCEPT !.at = "readK", !.error = e]
    BY <1>0, <1>7, <2>2 DEF F!ConsumeGrant, F!Refused, Effects, Untouched, ClientRecord,
                            BrokerType
  <2>3. CASE F!Failed("^") /\ fresh' = [fresh EXCEPT !.at = "readK", !.error = "other"]
    <3>1. \/ /\ F!Servable(broker, "^")
             /\ late' = late
             /\ broker'.executions = broker.executions + 1
             /\ broker'.phase = "pending"
             /\ broker'.children = broker.children /\ broker'.begun = broker.begun
          \/ broker' = broker /\ late' = late
          \/ broker' = broker /\ late' = late \cup {"^"}
      BY <2>3, FrameSent, Served
    <3>2. QED
      BY <1>0, <1>7, <2>3, <3>1 DEF F!ConsumeGrant, Effects, Untouched, ClientRecord, BrokerType
  <2>4. CASE \E outcome \in {"unavailable", "error"} : F!Steps(outcome)
    BY <1>0, <1>7, <2>4 DEF F!ConsumeGrant, F!Steps, F!Step, Effects, Untouched,
                            ClientRecord, BrokerType
  <2>5. QED BY <1>7, <2>1, <2>2, <2>3, <2>4
           DEF F!ConsumeGrant, F!workload_environment, F!sealed_command_file
<1>8. CASE F!ReadExecution
  <2>1. fresh.at = "readK" /\ broker' = broker /\ late' = late
    BY <1>8, FrameAsked DEF F!ReadExecution
  <2>2. CASE F!Answered("9") /\ F!Step(IF broker.phase = "unknown" THEN "error" ELSE "consumed")
    <3>1. broker.phase # "absent"
      BY <2>2 DEF F!Answered, F!Servable
    <3>2. broker.executions = 1 /\ "^" \notin late
      <4>1. broker.executions \in Nat /\ broker.executions # 0
        BY <1>0, <3>1 DEF Effects, BrokerType
      <4>2. broker.executions \in {0, 1} /\ ("^" \in late => broker.executions = 0)
        BY DEF Effects
      <4>3. QED BY <4>1, <4>2
    <3>3. QED BY <1>0, <2>1, <2>2, <3>2 DEF F!Step, Effects, Untouched, ClientRecord, BrokerType
  <2>3. CASE F!Step(IF fresh.error = "drift" /\ broker.phase = "absent"
                    THEN "unavailable" ELSE "error")
    BY <1>0, <2>1, <2>3 DEF F!Step, Effects, Untouched, ClientRecord, BrokerType
  <2>4. CASE F!Step("error")
    BY <1>0, <2>1, <2>4 DEF F!Step, Effects, Untouched, ClientRecord, BrokerType
  <2>5. QED BY <1>8, <2>2, <2>3, <2>4 DEF F!ReadExecution
<1>9. CASE F!Dispatch
  BY <1>0, <1>9
     DEF F!Dispatch, F!Step, F!Steps, F!Return, F!Error, Effects, Untouched, ClientRecord,
         BrokerType
<1>10. CASE F!AwaitDrained
  BY <1>0, <1>10, FrameAsked
     DEF F!AwaitDrained, F!Step, F!Steps, F!Return, F!Error, Effects, Untouched,
         ClientRecord, BrokerType, F!Servable, F!Answered, F!Refused
<1>11. CASE F!AcceptSource
  <2>0. F!Answered("%") \/ F!Refused("%") \/ F!Failed("%")
    BY <1>11 DEF F!AcceptSource, F!Error
  <2>1. \/ /\ F!Servable(broker, "%") /\ late' = late
           /\ broker'.children = broker.children
           /\ broker'.executions = broker.executions
           /\ broker'.phase = broker.phase
           /\ broker'.begun = broker.begun
        \/ broker' = broker /\ late' = late
        \/ broker' = broker /\ late' = late \cup {"%"}
    BY <2>0, FrameSent, Served
  <2>2. QED
    BY <1>0, <1>11, <2>1
       DEF F!AcceptSource, F!Step, F!Return, Effects, Untouched, ClientRecord, BrokerType
<1>12. CASE F!request_sync_begin
  <2>1. fresh.at = "begin"
    BY <1>12 DEF F!request_sync_begin
  <2>2. CASE /\ F!Answered("v")
             /\ IF broker.begun = 0 THEN F!Step("verify") ELSE F!Return("unknown")
    <3>1. /\ F!Servable(broker, "v")
          /\ late' = late
          /\ broker'.begun = broker.begun + 1
          /\ broker'.children = broker.children
          /\ broker'.executions = broker.executions
          /\ broker'.phase = broker.phase
      BY <2>2, FrameSent, Served DEF F!Answered
    <3>2. broker.begun = 0 /\ fresh' = [fresh EXCEPT !.at = "verify"]
      BY <2>1, <2>2 DEF Effects, F!Step
    <3>3. fresh'.at = "verify" /\ broker'.begun = 1
      BY <1>0, <3>1, <3>2 DEF ClientRecord
    <3>4. QED BY <1>0, <2>1, <3>1, <3>3 DEF Effects, Untouched, BrokerType
  <2>3. CASE F!Error("v") /\ F!Step("read publication")
    <3>0. F!Refused("v") \/ F!Failed("v")
      BY <2>3 DEF F!Error
    <3>1. \/ /\ F!Servable(broker, "v")
             /\ late' = late
             /\ broker'.begun = broker.begun + 1
             /\ broker'.children = broker.children
             /\ broker'.executions = broker.executions
             /\ broker'.phase = broker.phase
          \/ broker' = broker /\ late' = late
          \/ broker' = broker /\ late' = late \cup {"v"}
      BY <3>0, FrameSent, Served
    <3>2. QED
      BY <1>0, <2>1, <2>3, <3>1 DEF F!Step, Effects, Untouched, ClientRecord, BrokerType
  <2>4. QED BY <1>12, <2>2, <2>3 DEF F!request_sync_begin
<1>13. CASE F!ReadPublication
  BY <1>0, <1>13, FrameAsked
     DEF F!ReadPublication, F!Step, F!Steps, F!Return, F!Error, Effects, Untouched,
         ClientRecord, BrokerType
<1>14. CASE F!VerifyStreams
  <2>1. fresh.at = "verify" /\ UNCHANGED <<broker, late, losses>>
    BY <1>14 DEF F!VerifyStreams
  <2>2. \/ fresh' = [fresh EXCEPT !.at = "write", !.result = "streams"]
        \/ fresh' = [fresh EXCEPT !.at = "error"]
    BY <1>14 DEF F!VerifyStreams, F!Step, F!Return
  <2>3. QED BY <1>0, <2>1, <2>2 DEF Effects, Untouched, ClientRecord
<1>15. CASE F!write_result
  BY <1>0, <1>15
     DEF F!write_result, F!Step, F!Steps, F!Return, F!Error, Effects, Untouched,
         ClientRecord, BrokerType
<1>16. QED BY <1>1, <1>2, <1>3, <1>4, <1>5, <1>6, <1>7, <1>8, <1>9, <1>10, <1>11, <1>12,
  <1>13, <1>14, <1>15 DEF F!ClientNext

\* The broker serves a frame that was given up, and the account stays.
LEMMA LateEffects ==
    ASSUME F!FreshType, Effects, F!BrokerServesLate
    PROVE  F!FreshType' /\ Effects'
<1>0. /\ fresh \in ClientRecord /\ broker \in BrokerType
      /\ late \subseteq {"X", "^", "%", "v"} /\ losses \in 0 .. MaxLosses
  BY DEF F!FreshType, ClientRecord, FreshStep, BrokerType
<1>1. PICK frame \in late :
        /\ late' = late \ {frame}
        /\ (F!Servable(broker, frame) /\ broker' = F!Serve(broker, frame)) \/ UNCHANGED broker
  BY DEF F!BrokerServesLate
<1>2. UNCHANGED <<fresh, losses>>
  BY DEF F!BrokerServesLate
<1>3. broker' \in BrokerType
  BY <1>0, <1>1, Served
<1>4. F!FreshType'
  BY <1>0, <1>1, <1>2, <1>3 DEF F!FreshType, ClientRecord, FreshStep, BrokerType
<1>5. CASE UNCHANGED broker
  BY <1>0, <1>1, <1>2, <1>4, <1>5 DEF Effects, Untouched, BrokerType
<1>6. CASE broker' = F!Serve(broker, frame)
  <2>1. CASE frame = "X"
    <3>1. /\ broker'.children = broker.children + 1 /\ broker'.executions = broker.executions
          /\ broker'.phase = broker.phase /\ broker'.begun = broker.begun
      BY <1>6, <2>1, Served
    <3>2. /\ broker'.children = 1 /\ "X" \notin late' /\ late' \subseteq late
          /\ fresh.at \notin {"start", "none", "probe", "command", "register"}
      <4>1. broker.children = 0 /\ "X" \in late
        BY <1>1, <2>1 DEF Effects
      <4>2. broker'.children = 1
        BY <3>1, <4>1
      <4>3. "X" \notin late' /\ late' \subseteq late
        BY <1>1, <2>1
      <4>4. fresh.at \notin {"start", "none", "probe", "command", "register"}
        BY <4>1 DEF Effects, Untouched
      <4>5. QED BY <4>2, <4>3, <4>4
    <3>3. /\ broker'.executions = broker.executions
          /\ broker'.phase = broker.phase /\ broker'.begun = broker.begun
      BY <3>1
    <3>4. Effects'
      BY <1>2, <3>2, <3>3 DEF Effects, Untouched
    <3>5. QED BY <1>4, <3>4
  <2>2. CASE frame = "^"
    <3>1. /\ broker'.children = broker.children /\ broker'.executions = broker.executions + 1
          /\ broker'.phase = "pending" /\ broker'.begun = broker.begun
      BY <1>6, <2>2, Served
    <3>2. /\ broker'.executions = 1 /\ "^" \notin late' /\ late' \subseteq late
          /\ "^" \in late /\ broker.executions # 1
      <4>1. broker.executions = 0 /\ "^" \in late
        BY <1>1, <2>2 DEF Effects
      <4>2. broker'.executions = 1
        BY <3>1, <4>1
      <4>3. "^" \notin late' /\ late' \subseteq late
        BY <1>1, <2>2
      <4>4. QED BY <4>1, <4>2, <4>3
    <3>3. /\ broker'.children = broker.children
          /\ broker'.phase = "pending" /\ broker'.begun = broker.begun
      BY <3>1
    <3>4. Effects'
      BY <1>2, <3>2, <3>3 DEF Effects, Untouched
    <3>5. QED BY <1>4, <3>4
  <2>3. CASE frame = "%"
    <3>1. /\ broker'.children = broker.children /\ broker'.executions = broker.executions
          /\ broker'.phase = broker.phase /\ broker'.begun = broker.begun
      BY <1>6, <2>3, Served
    <3>2. QED BY <1>0, <1>1, <1>2, <1>4, <2>3, <3>1 DEF Effects, Untouched, BrokerType
  <2>4. CASE frame = "v"
    <3>1. /\ broker'.children = broker.children /\ broker'.executions = broker.executions
          /\ broker'.phase = broker.phase /\ broker'.begun = broker.begun + 1
      BY <1>6, <2>4, Served
    <3>2. QED BY <1>0, <1>1, <1>2, <1>4, <2>4, <3>1 DEF Effects, Untouched, BrokerType
  <2>5. QED BY <1>0, <1>1, <2>1, <2>2, <2>3, <2>4
<1>7. QED BY <1>1, <1>4, <1>5, <1>6

\* The execution goes on at the broker, and the account stays.
LEMMA ObservedEffects ==
    ASSUME F!FreshType, Effects, F!BrokerObserves
    PROVE  F!FreshType' /\ Effects'
<1>0. /\ fresh \in ClientRecord /\ broker \in BrokerType
      /\ late \subseteq {"X", "^", "%", "v"} /\ losses \in 0 .. MaxLosses
  BY DEF F!FreshType, ClientRecord, FreshStep, BrokerType
<1>1. PICK p \in {"exited", "drained", "unknown"} :
        broker' = [broker EXCEPT !.phase = p] /\ broker.phase \in {"pending", "exited"}
  BY DEF F!BrokerObserves
<1>2. UNCHANGED <<fresh, late, losses>>
  BY DEF F!BrokerObserves
<1>3. /\ broker' \in BrokerType /\ broker'.phase = p
      /\ broker'.children = broker.children /\ broker'.executions = broker.executions
      /\ broker'.begun = broker.begun
  BY <1>0, <1>1 DEF BrokerType
<1>4. F!FreshType'
  BY <1>0, <1>2, <1>3 DEF F!FreshType, ClientRecord, FreshStep, BrokerType
<1>5. Effects'
  BY <1>0, <1>1, <1>2, <1>3 DEF Effects, Untouched
<1>6. QED BY <1>4, <1>5

\* What leaves the fresh route alone keeps its account.
LEMMA FreshStays ==
    ASSUME F!FreshType, Effects, UNCHANGED freshVars
    PROVE  F!FreshType' /\ Effects'
<1>1. fresh' = fresh /\ broker' = broker /\ late' = late /\ losses' = losses
  BY DEF freshVars
<1>2. F!FreshType'
  BY <1>1 DEF F!FreshType
<1>3. Effects'
  BY <1>1 DEF Effects, Untouched
<1>4. QED BY <1>2, <1>3
\* A step of the command is a step of the paired route or leaves it alone.
LEMMA RunStep ==
    ASSUME [RunNext]_allVars
    PROVE  [Next]_vars
BY DEF RunNext, CommandNext, CallFresh, FreshReturns, resolve_cancel_owner, owner_context,
       create_run_state, persist_initial_meta, Routed, Command, allVars

RunInv == Inv /\ F!FreshType /\ Effects /\ Routes /\ RunTypeOK

\* The invariant of the run command holds at first.
LEMMA RunInitInv ==
    ASSUME RunInit
    PROVE  RunInv
<1>1. Inv
  BY InitInv DEF RunInit
<1>2. F!FreshType
  BY RunCommandAssumption DEF RunInit, F!Init, F!Start, F!FreshType
<1>3. Effects /\ Routes
  BY DEF RunInit, F!Init, F!Start, Effects, Untouched, Routes, Init
<1>4. RunTypeOK
  BY <1>1, <1>2 DEF RunTypeOK, Inv, RunInit
<1>5. QED BY <1>1, <1>2, <1>3, <1>4 DEF RunInv

\* Every step keeps it.
LEMMA RunNextInv ==
    ASSUME RunInv, [RunNext]_allVars
    PROVE  RunInv'
<1>0. Inv /\ F!FreshType /\ Effects /\ Routes /\ RunTypeOK
  BY DEF RunInv
<1>1. Inv'
  BY <1>0, RunStep, NextInv
<1> DEFINE Here == /\ F!FreshType' /\ Effects' /\ Routes'
                   /\ command' \in {"fresh", "caller", "owner", "fresh owner", "handle",
                                    "persist", "route", "returned"}
                   /\ handle' \in {"none", "created", "removed"}
<1>2. /\ command \in {"fresh", "caller", "owner", "fresh owner", "handle", "persist",
                      "route", "returned"}
      /\ handle \in {"none", "created", "removed"} /\ fresh \in ClientRecord
  BY <1>0 DEF RunTypeOK, F!FreshType, ClientRecord, FreshStep
<1>3. ASSUME CallFresh PROVE Here
  <2>1. /\ command \in {"fresh", "fresh owner"} /\ F!ClientNext
        /\ UNCHANGED <<vars, command, handle>>
    BY <1>3 DEF CallFresh
  <2>2. F!FreshType' /\ Effects'
    BY <1>0, <2>1, FreshTypes, FreshEffects
  <2>3. Routes'
    BY <1>0, <2>1 DEF Routes, vars
  <2>4. QED BY <1>2, <2>1, <2>2, <2>3
<1>4. ASSUME FreshReturns PROVE Here
  <2>1. F!FreshType' /\ Effects'
    BY <1>0, <1>4, FreshStays DEF FreshReturns
  <2>2. QED BY <1>0, <1>2, <1>4, <2>1 DEF FreshReturns, Command, vars, freshVars, Routes
<1>5. ASSUME resolve_cancel_owner PROVE Here
  <2>1. F!FreshType' /\ Effects'
    BY <1>0, <1>5, FreshStays DEF resolve_cancel_owner
  <2>2. QED BY <1>0, <1>2, <1>5, <2>1 DEF resolve_cancel_owner, Command, vars, freshVars, Routes
<1>6. ASSUME owner_context PROVE Here
  <2>1. command = "owner" /\ UNCHANGED <<vars, handle>> /\ fresh.at = "none"
    BY <1>0, <1>6 DEF owner_context, Command, Routes
  <2>2. CASE UNCHANGED freshVars /\ command' \in {"handle", "returned"}
    <3>1. F!FreshType' /\ Effects'
      BY <1>0, <2>2, FreshStays
    <3>2. QED BY <1>0, <1>2, <2>1, <2>2, <3>1 DEF vars, freshVars, Routes
  <2>3. CASE fresh' = F!Start /\ UNCHANGED <<broker, late, losses>> /\ command' = "fresh owner"
    <3>1. F!FreshType' /\ fresh'.at = "start"
      BY <1>0, <2>3 DEF F!FreshType, F!Start
    <3>2. Effects'
      BY <1>0, <2>1, <2>3, <3>1 DEF Effects, Untouched
    <3>3. QED BY <1>0, <1>2, <2>1, <2>3, <3>1, <3>2 DEF vars, Routes
  <2>4. QED BY <1>6, <2>2, <2>3 DEF owner_context, Command
<1>7. ASSUME create_run_state \/ persist_initial_meta PROVE Here
  <2>1. F!FreshType' /\ Effects'
    BY <1>0, <1>7, FreshStays DEF create_run_state, persist_initial_meta
  <2>2. QED BY <1>0, <1>2, <1>7, <2>1
           DEF create_run_state, persist_initial_meta, Command, vars, freshVars, Routes
<1>8. ASSUME Routed(Next) PROVE Here
  <2>1. F!FreshType' /\ Effects'
    BY <1>0, <1>8, FreshStays DEF Routed, freshVars
  <2>2. QED BY <1>0, <1>2, <1>8, <2>1 DEF Routed, freshVars, Routes
<1>9. ASSUME (F!BrokerServesLate \/ F!BrokerObserves) /\ UNCHANGED <<vars, command, handle>>
      PROVE  Here
  <2>1. F!FreshType' /\ Effects' /\ UNCHANGED fresh
    BY <1>0, <1>9, LateEffects, ObservedEffects DEF F!BrokerServesLate, F!BrokerObserves
  <2>2. QED BY <1>0, <1>2, <1>9, <2>1 DEF vars, Routes
<1>10. ASSUME UNCHANGED allVars PROVE Here
  <2>1. F!FreshType' /\ Effects'
    BY <1>0, <1>10, FreshStays DEF allVars
  <2>2. QED BY <1>0, <1>2, <1>10, <2>1 DEF allVars, freshVars, vars, Routes
<1>11. Here
  BY <1>3, <1>4, <1>5, <1>6, <1>7, <1>8, <1>9, <1>10 DEF RunNext, CommandNext
<1>12. QED BY <1>1, <1>11 DEF RunInv, RunTypeOK, Inv

\* The invariant holds in every behaviour of the run command.
LEMMA RunInvariant ==
    RunSpec => []RunInv
<1>1. RunInit => RunInv
  BY RunInitInv
<1>2. RunInv /\ [RunNext]_allVars => RunInv'
  BY RunNextInv
<1>3. QED BY <1>1, <1>2, PTL DEF RunSpec

\* The run command implements the paired route: what that guarantees by itself
\* it guarantees inside the command (run_command, select_original_work_route).
THEOREM RunImplementsWork ==
    RunSpec => Spec
<1>1. RunInit => Init
  BY DEF RunInit
<1>2. [RunNext]_allVars => [Next]_vars
  BY RunStep
<1>3. QED BY <1>1, <1>2, PTL DEF RunSpec, Spec

\* The run command keeps its types.
THEOREM RunTypeCorrect ==
    RunSpec => []RunTypeOK
<1>1. RunInv => RunTypeOK
  BY DEF RunInv
<1>2. QED BY <1>1, RunInvariant, PTL

\* A run recorded as failed before acceptance is not accepted and never will be,
\* whatever is lost and whoever dies (preaccept_failure).
THEOREM PreacceptHolds ==
    RunSpec => []PreacceptIsTrue
BY RunImplementsWork, WorkPreacceptIsTrue, PTL

\* The recorded cause of a cancellation was read or left by a local request, and
\* the loss of the root relabels none that was read, nor one still unread unless
\* R could not be sent (with_precedence_over, announce_root_local_ready).
THEOREM CauseHolds ==
    RunSpec => []CauseIsTrue
BY RunImplementsWork, WorkCauseIsTrue, PTL

\* The terminal of a launched workload follows the root's settlement or its
\* loss (root_settlement_granted).
THEOREM SettlementPrecedes ==
    RunSpec => []SettledFirst
BY RunImplementsWork, WorkSettledFirst, PTL

\* T follows the durable terminal and the selected event
\* (integrate_terminal_publication).
THEOREM ReceiptFollows ==
    RunSpec => []ReceiptFollowsRecord
BY RunImplementsWork, WorkReceiptFollowsRecord, PTL

\* No client leaves the paired tree while a custodian ancestor of it lives
\* (classify_standalone).
THEOREM NobodyEscapes ==
    RunSpec => NoEscape
BY RunImplementsWork, WorkNoEscape, PTL

\* What the fresh route reports is so, whatever is lost or served late: an
\* unavailable run is never executed, and a result is that of the one execution
\* (register_ordinary_run, write_result).
THEOREM FreshReportHolds ==
    RunSpec => []ReportIsTrue
<1>1. RunInv => ReportIsTrue
  BY DEF RunInv, Effects, ReportIsTrue, F!ReportIsTrue
<1>2. QED BY <1>1, RunInvariant, PTL

\* A run is admitted at most once, by the broker, by the root or standalone, and
\* one the broker may have admitted never gets a handle (run_command).
THEOREM AdmittedOnce ==
    RunSpec => []OneAdmission
<1>1. RunInv => OneAdmission
  <2> SUFFICES ASSUME RunInv PROVE OneAdmission
    OBVIOUS
  <2>1. /\ Submission /\ Effects /\ Routes /\ broker.children \in Nat
        /\ late \subseteq {"X", "^", "%", "v"}
    BY DEF RunInv, Inv, F!FreshType
  <2>2. ~(root.accepted /\ client.at = "standalone")
    BY <2>1 DEF Submission
  <2>3. /\ broker.children \in {0, 1} /\ ("X" \in late => broker.children = 0)
        /\ fresh.at = "none" => broker.children = 0 /\ late = {}
    BY <2>1, Zenon DEF Effects, Untouched
  <2>4. broker.children \in Nat
    BY <2>1
  <2>5. broker.children + (IF "X" \in late THEN 1 ELSE 0) <= 1
    <3>1. CASE "X" \in late
      BY <2>3, <3>1
    <3>2. CASE "X" \notin late
      BY <2>3, <2>4, <3>2
    <3>3. QED BY <3>1, <3>2
  <2>6. ASSUME broker.children > 0 \/ "X" \in late
        PROVE  handle = "none" /\ ~root.accepted /\ client.at # "standalone"
    <3>1. fresh.at # "none"
      <4>1. ~(0 > 0)
        OBVIOUS
      <4>2. QED BY <2>6, <2>3, <4>1, Zenon
    <3>2. handle = "none" /\ client.at = "select" /\ request = "none"
      BY <2>1, <3>1 DEF Routes
    <3>3. QED BY <2>1, <3>2 DEF Submission
  <2>7. QED BY <2>2, <2>5, <2>6 DEF OneAdmission
<1>2. QED BY <1>1, RunInvariant, PTL
=============================================================================
