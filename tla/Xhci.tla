--------------------------------- MODULE Xhci ---------------------------------
(***************************************************************************)
(* Bulk transfers of one endpoint through xhci.c: the transfer ring that   *)
(* RingPush fills, the event ring that PopEvent reads, the wait of BulkTd, *)
(* and RecoverEndpoint, which makes the controller pass over a transfer    *)
(* that failed or was given up.                                            *)
(*                                                                         *)
(* The command ring is filled by RingPush as well, and is a queue here; a  *)
(* command is known by its number.  A transfer descriptor (TD) is known by *)
(* its number too, which stands for its data; each of its TRBs moves two   *)
(* bytes.  What an event says of a TRB is its place in the ring, as in the *)
(* code, and places come round again.                                      *)
(***************************************************************************)
EXTENDS Naturals, Sequences

CONSTANTS
  EvtSize,             (* EVT_SIZE, 256                                    *)
  Sessions             (* what a session is like, see below                *)

(* The ring's size (256, the last place holding the link), whether the     *)
(* controller may take longer than the driver waits for it, and as bounds  *)
(* how many TDs there are and up to which command halts are cleared.       *)
ASSUME XhciConstants ==
  /\ EvtSize \in Nat /\ EvtSize > 1
  /\ Sessions \subseteq [ringSize : Nat \ 0..2, transfersTimeOut : BOOLEAN, commandsTimeOut : BOOLEAN,
                         maxTds : Nat, maxCommands : Nat]

VARIABLES
  session,
  R,                   (* the transfer ring: [Base, Enq, Cycle]            *)
  EvtDeq, EvtCycle,    (* the driver's side of the event ring              *)
  pc,
  Td, TrbPhys,         (* the TD in progress, and where its TRBs are       *)
  Actual, ret,         (* what BulkTd returned                             *)
  todo,                (* commands RecoverEndpoint has still to give       *)
  Commands,            (* commands given                                   *)
  \* the controller
  deq, ccs,            (* its place and cycle state in the transfer ring   *)
  endpoint,            (* running, stopped or halted                       *)
  queue,               (* the command ring                                 *)
  Evt, evtEnq, pcs,    (* its side of the event ring                       *)
  erdp,                (* what the driver told it to have read             *)
  Bounce,              (* what the last TD moved: [td, bytes]              *)
  \* history
  posted, consumed

reader == <<EvtDeq, EvtCycle, erdp, consumed>>
call == <<R, pc, Td, TrbPhys, Actual, ret, todo, Commands>>
events == <<Evt, evtEnq, pcs, posted>>
vars == <<session, reader, call, events, deq, ccs, endpoint, queue, Bounce>>

RingSize == session.ringSize
Link == RingSize - 1

NoTrb == [td |-> 0, k |-> 0, n |-> 0, cycle |-> 0]
NoEvent == [type |-> "none", ptr |-> 0, code |-> "none", residue |-> 0, cycle |-> 0]

(* RingInit, ConfigureEndpoints and ControllerInit. *)
Init ==
  /\ session \in Sessions
  /\ R = [Base |-> [p \in 0..Link |-> NoTrb], Enq |-> 0, Cycle |-> 1]
  /\ EvtDeq = 0 /\ EvtCycle = 1 /\ erdp = 0
  /\ pc = "idle" /\ Td = 0 /\ TrbPhys = <<>> /\ Actual = 0 /\ ret = "none"
  /\ todo = <<>> /\ Commands = 0
  /\ deq = 0 /\ ccs = 1 /\ endpoint = "running" /\ queue = <<>>
  /\ Evt = [p \in 0..(EvtSize - 1) |-> NoEvent] /\ evtEnq = 0 /\ pcs = 1
  /\ Bounce = [td |-> 0, bytes |-> 0]
  /\ posted = 0 /\ consumed = 0

------------------------------------------------------------------------------
(* The driver. *)

(* One more TRB; with the last place but one, the link is handed over too. *)
RingPush(r, trb) ==
  LET a == [r EXCEPT !.Base[r.Enq] = [trb EXCEPT !.cycle = r.Cycle], !.Enq = r.Enq + 1]
  IN  IF a.Enq # Link THEN a
      ELSE [a EXCEPT !.Base[Link].cycle = a.Cycle, !.Enq = 0, !.Cycle = 1 - a.Cycle]

(* A doorbell starts an endpoint that is stopped, not one that is halted.  *)
Doorbell == endpoint' = IF endpoint = "stopped" THEN "running" ELSE endpoint

Trb(td, k, n) == [NoTrb EXCEPT !.td = td, !.k = k, !.n = n]

(* BulkTd as far as its loop.  The bounce buffer crosses at most one 64 KB *)
(* boundary, so a TD has one TRB or two.  A stalled endpoint is always     *)
(* cleared by Bot before it is used again.                                 *)
BulkTd(n) ==
  /\ pc = "idle" /\ ret # "stall" /\ Td < session.maxTds
  /\ Td' = Td + 1
  /\ LET one == RingPush(R, Trb(Td + 1, 0, n))
     IN  IF n = 1 THEN R' = one /\ TrbPhys' = <<R.Enq>>
         ELSE R' = RingPush(one, Trb(Td + 1, 1, n)) /\ TrbPhys' = <<R.Enq, one.Enq>>
  /\ Doorbell
  /\ pc' = "wait" /\ Actual' = 0
  /\ UNCHANGED <<session, ret, todo, Commands, reader, events, deq, ccs, queue, Bounce>>

HasEvent == Evt[EvtDeq].cycle = EvtCycle

PopEvent ==
  /\ HasEvent
  /\ EvtDeq' = IF EvtDeq + 1 = EvtSize THEN 0 ELSE EvtDeq + 1
  /\ EvtCycle' = IF EvtDeq' = 0 THEN 1 - EvtCycle ELSE EvtCycle
  /\ erdp' = EvtDeq' /\ consumed' = consumed + 1

(* Mutant: any transfer event of the endpoint ends the wait. *)
HitAny(e, k) == e.type = "transfer" /\ k = Len(TrbPhys)

Hit(e, k) == e.type = "transfer" /\ e.ptr = TrbPhys[k]

(* Mutant: an endpoint that has stopped itself is not reset. *)
RecoverEndpointNoReset(timedOut) ==
  /\ todo' = IF timedOut THEN <<"stop", "setdeq">> ELSE <<"setdeq">>
  /\ pc' = "command"

RecoverEndpoint(timedOut) ==
  /\ todo' = IF timedOut THEN <<"stop", "reset", "setdeq">> ELSE <<"reset", "setdeq">>
  /\ pc' = "command"

Finish(result) == ret' = result /\ pc' = "idle" /\ UNCHANGED todo

(* One round of BulkTd's loop, when there is an event. *)
BulkEvent ==
  /\ pc = "wait" /\ PopEvent
  /\ LET e == Evt[EvtDeq]
     IN  \/ /\ \A k \in DOMAIN TrbPhys : ~Hit(e, k)
            /\ UNCHANGED <<pc, Actual, ret, todo>>
         \/ \E k \in DOMAIN TrbPhys :
              /\ Hit(e, k)
              /\ IF e.code \in {"success", "short"}
                   THEN /\ Actual' = 2 * (k - 1) + (2 - e.residue)
                        /\ Finish("ok")
                   ELSE /\ UNCHANGED Actual
                        /\ IF e.code = "stall" THEN Finish("stall")
                           ELSE ret' = "fail" /\ RecoverEndpoint(FALSE)
  /\ UNCHANGED <<session, R, Td, TrbPhys, Commands, events, deq, ccs, endpoint, queue, Bounce>>

BulkTimeOut ==
  /\ session.transfersTimeOut
  /\ pc = "wait" /\ ~HasEvent
  /\ ret' = "fail" /\ RecoverEndpoint(TRUE)
  /\ UNCHANGED <<session, R, Td, TrbPhys, Actual, Commands, reader, events, deq, ccs, endpoint, queue, Bounce>>

(* XhciClearHalt, after a stall or from ResetRecovery at any time; the     *)
(* request to the device's control endpoint is left out.                   *)
XhciClearHalt ==
  /\ pc = "idle" /\ Td > 0 /\ Commands < session.maxCommands
  /\ ret' = "cleared" /\ RecoverEndpoint(FALSE)
  /\ UNCHANGED <<session, R, Td, TrbPhys, Actual, Commands, reader, events, deq, ccs, endpoint, queue, Bounce>>

(* Mutant: the transfer that failed is gone back to. *)
TargetFailed == [pos |-> TrbPhys[1], cycle |-> R.Cycle]

(* Where SET_DEQ tells the controller to go on. *)
Target == [pos |-> R.Enq, cycle |-> R.Cycle]

(* Command, as far as its loop. *)
Command ==
  /\ pc = "command" /\ todo # <<>>
  /\ Commands' = Commands + 1
  /\ queue' = Append(queue, [n |-> Commands + 1, kind |-> Head(todo), to |-> Target])
  /\ todo' = Tail(todo) /\ pc' = "cmdwait"
  /\ UNCHANGED <<session, R, Td, TrbPhys, Actual, ret, reader, events, deq, ccs, endpoint, Bounce>>

Answered == Evt[EvtDeq].type = "command" /\ Evt[EvtDeq].ptr = Commands

CommandEvent ==
  /\ pc = "cmdwait" /\ PopEvent
  /\ pc' = IF ~Answered THEN pc ELSE IF todo = <<>> THEN "idle" ELSE "command"
  /\ UNCHANGED <<session, R, Td, TrbPhys, Actual, ret, todo, Commands, events, deq, ccs, endpoint, queue, Bounce>>

(* RecoverEndpoint goes on all the same. *)
CommandTimeOut ==
  /\ session.commandsTimeOut
  /\ pc = "cmdwait" /\ ~HasEvent
  /\ pc' = IF todo = <<>> THEN "idle" ELSE "command"
  /\ UNCHANGED <<session, R, Td, TrbPhys, Actual, ret, todo, Commands, reader, events, deq, ccs, endpoint, queue, Bounce>>

Waiting == BulkEvent \/ BulkTimeOut \/ Command \/ CommandEvent \/ CommandTimeOut

Driver == (\E n \in {1, 2} : BulkTd(n)) \/ XhciClearHalt \/ Waiting

------------------------------------------------------------------------------
(* The controller. *)

After(p) == (p + 1) % EvtSize

Post(type, ptr, code, residue) ==
  /\ After(evtEnq) # erdp
  /\ Evt' = [Evt EXCEPT ![evtEnq] =
               [type |-> type, ptr |-> ptr, code |-> code, residue |-> residue, cycle |-> pcs]]
  /\ evtEnq' = After(evtEnq) /\ pcs' = IF evtEnq' = 0 THEN 1 - pcs ELSE pcs
  /\ posted' = posted + 1

(* A TRB waits to be executed. *)
Available == endpoint = "running" /\ R.Base[deq].cycle = ccs

FollowLink ==
  /\ Available /\ deq = Link
  /\ deq' = 0 /\ ccs' = 1 - ccs
  /\ UNCHANGED <<session, reader, call, events, endpoint, queue, Bounce>>

(* On to the TRB after the next m. *)
Advance(m) ==
  IF deq + 1 + m <= Link THEN deq' = deq + 1 + m /\ ccs' = ccs
  ELSE deq' = deq + 1 + m - Link /\ ccs' = 1 - ccs

Moves(trb, bytes) ==
  Bounce' = [td |-> trb.td, bytes |-> (IF trb.k = 0 THEN 0 ELSE Bounce.bytes) + bytes]

Complete ==
  /\ Available /\ deq # Link
  /\ LET T == R.Base[deq]
     IN  /\ Moves(T, 2) /\ Advance(0)
         /\ IF T.k = T.n - 1 THEN Post("transfer", deq, "success", 0) ELSE UNCHANGED events
  /\ UNCHANGED <<session, reader, call, endpoint, queue>>

(* The device sends less than was asked for: the TD ends here. *)
Short ==
  /\ Available /\ deq # Link
  /\ LET T == R.Base[deq]
     IN  \E residue \in {1, 2} :
           /\ Moves(T, 2 - residue) /\ Advance(T.n - 1 - T.k)
           /\ Post("transfer", deq, "short", residue)
  /\ UNCHANGED <<session, reader, call, endpoint, queue>>

Fail(code) ==
  /\ Available /\ deq # Link
  /\ Post("transfer", deq, code, 2) /\ endpoint' = "halted"
  /\ UNCHANGED <<session, reader, call, deq, ccs, queue, Bounce>>

(* Stopping an endpoint inside a TD is reported as an event of its own.    *)
StopReports ==
  /\ queue # <<>> /\ Head(queue).kind = "stop"
  /\ Available /\ deq # Link
  /\ Post("transfer", deq, "stopped", 2) /\ endpoint' = "stopped"
  /\ UNCHANGED <<session, reader, call, deq, ccs, queue, Bounce>>

(* A command that does not fit the endpoint's state fails, which the       *)
(* driver does not look at.                                                *)
ExecuteCommand ==
  /\ queue # <<>>
  /\ LET c == Head(queue)
     IN  /\ Post("command", c.n, "none", 0)
         /\ endpoint' = CASE c.kind = "stop" /\ endpoint = "running" -> "stopped"
                          [] c.kind = "reset" /\ endpoint = "halted" -> "stopped"
                          [] OTHER -> endpoint
         /\ IF c.kind = "setdeq" /\ endpoint = "stopped"
              THEN deq' = c.to.pos /\ ccs' = c.to.cycle ELSE UNCHANGED <<deq, ccs>>
  /\ queue' = Tail(queue)
  /\ UNCHANGED <<session, reader, call, Bounce>>

Transfer == FollowLink \/ Complete \/ Short \/ \E code \in {"stall", "error"} : Fail(code)

Controller == Transfer \/ StopReports \/ ExecuteCommand

Next == Driver \/ Controller

Spec == Init /\ [][Next]_vars

(* The kernel's one thread is in the loops, and the controller works on    *)
(* its transfers and its commands.                                         *)
Fairness == WF_vars(Waiting) /\ WF_vars(Transfer) /\ WF_vars(ExecuteCommand)
FairSpec == Spec /\ Fairness

------------------------------------------------------------------------------

TypeOK ==
  /\ R.Base \in [0..Link -> [td : 0..session.maxTds, k : {0, 1}, n : 0..2, cycle : {0, 1}]]
  /\ R.Enq \in 0..(Link - 1) /\ R.Cycle \in {0, 1}
  /\ EvtDeq \in 0..(EvtSize - 1) /\ EvtCycle \in {0, 1} /\ erdp = EvtDeq
  /\ pc \in {"idle", "wait", "command", "cmdwait"} /\ Td \in 0..session.maxTds
  /\ \A k \in DOMAIN TrbPhys : TrbPhys[k] \in 0..(Link - 1)
  /\ Actual \in 0..4 /\ ret \in {"none", "ok", "stall", "fail", "cleared"}
  /\ deq \in 0..Link /\ ccs \in {0, 1} /\ endpoint \in {"running", "stopped", "halted"}
  /\ evtEnq \in 0..(EvtSize - 1) /\ pcs \in {0, 1}

(* A transfer that reports success moved its own data, and as many bytes   *)
(* as it says, although events of earlier ones may still come in and name  *)
(* the same places in the ring.                                            *)
OkIsOwn ==
  pc = "idle" /\ ret = "ok" => Bounce = [td |-> Td, bytes |-> Actual]

(* The controller only ever executes the transfer that is being waited     *)
(* for: one that failed or was given up is passed over, wherever in the    *)
(* ring it was, and the ring's old contents are never run again.  It may   *)
(* be different when a command that was given up takes effect later.       *)
OnlyCurrentRuns ==
  ~session.commandsTimeOut /\ Available /\ deq # Link => pc # "idle" /\ R.Base[deq].td = Td

(* The event ring's cycle bit tells new events from those of its last lap. *)
CycleTellsNew == HasEvent <=> consumed < posted

(* A controller that is not slow answers every transfer, also after stalls *)
(* and errors: no endpoint is left halted or stopped.                      *)
TransferReturns ==
  (pc = "wait" /\ ~session.transfersTimeOut /\ ~session.commandsTimeOut) ~> pc = "idle"
==============================================================================
