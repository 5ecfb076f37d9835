--------------------------------- MODULE Bot ---------------------------------
(***************************************************************************)
(* The bulk-only protocol of usbmsc.c: Bot sends a command (CBW), moves    *)
(* its data and takes its status (CSW), with the recoveries in between;    *)
(* Sense, MscRead and the loop of ProbeLun that waits for the drive call   *)
(* it.                                                                     *)
(*                                                                         *)
(* The drive is a queue of what it has still to send.  One that has lost   *)
(* step may refuse, stall, or take a new command behind the old one.       *)
(* Requests to it get lost at any point, those of a recovery too.          *)
(***************************************************************************)
EXTENDS Naturals, Sequences

CONSTANTS
  ReadyTries,          (* how often ProbeLun asks a drive, 25              *)
  MaxOps               (* bound: calls                                     *)

BotConstants == ReadyTries \in Nat \ {0} /\ MaxOps \in Nat

VARIABLES
  op, ops,             (* the caller: MscRead or ProbeLun; how many so far *)
  cmd, Attempt,
  step,                (* where Bot is                                     *)
  Tag,                 (* TagCounter; the command's tag                    *)
  Data, Got, St,       (* what came, how much of it, what Bot returned     *)
  ret,                 (* what the caller returned                         *)
  \* the drive
  out,                 (* what it has still to send                        *)
  halted,              (* its pipes that stall                             *)
  \* history
  clean                (* nothing went wrong in this call                  *)

caller == <<op, ops, cmd, Attempt, ret>>
drive == <<out, halted>>
vars == <<caller, step, Tag, Data, Got, St, drive, clean>>

Tries == [read |-> 3, ready |-> ReadyTries]
Want == [read |-> 512, tur |-> 0, sense |-> 18]

Item(kind, tag, bytes, info) == [kind |-> kind, tag |-> tag, bytes |-> bytes, info |-> info]
Nothing == Item("none", 0, 0, "none")

Init ==
  /\ op = "none" /\ ops = 0 /\ cmd = "read" /\ Attempt = 0 /\ ret = 0
  /\ step = "idle" /\ Tag = 0 /\ Data = Nothing /\ Got = 0 /\ St = "ok"
  /\ out = <<>> /\ halted = {}
  /\ clean = TRUE

------------------------------------------------------------------------------
(* The drive. *)

Unless(wrong) == clean' = (clean /\ ~wrong)

Csw(status) == <<Item("csw", Tag, 13, status)>>
Sends(bytes, info) == <<Item("data", Tag, bytes, info)>>
Stalls == <<Item("stall", Tag, 0, "none")>>

GoodReplies ==
  CASE cmd = "tur" -> {Csw("passed")}
    [] cmd = "read" -> {Sends(512, "none") \o Csw("passed")}
    [] cmd = "sense" -> {Sends(18, key) \o Csw("passed") : key \in {"attention", "noMedium", "other"}}

OtherReplies ==
  IF cmd = "tur" THEN {Csw("failed"), Csw("phase")}
  ELSE {Csw("failed"), Stalls \o Csw("failed"), Stalls \o Csw("passed"),
        Sends(8, "none") \o Csw("passed"), Sends(Want[cmd], "none") \o Csw("phase")}

OutOfStep == out # <<>>

(* The drive takes a command; a drive out of step takes one at the most.   *)
Accepts(wrong) ==
  /\ "out" \notin halted /\ Len(out) < 3
  /\ \/ (\E r \in GoodReplies : out' = out \o r) /\ Unless(wrong)
     \/ (\E r \in OtherReplies : out' = out \o r) /\ Unless(TRUE)
  /\ UNCHANGED halted

Refuses(pipe) ==
  /\ Unless(~OutOfStep /\ pipe \notin halted)
  /\ UNCHANGED out

(* XhciBulk to the drive. *)
CbwOk == Accepts(FALSE)
CbwStall == Refuses("out") /\ halted' = halted \cup {"out"}
CbwFail == Accepts(TRUE) \/ (Refuses("out") /\ UNCHANGED halted)

(* XhciBulk from the drive, into a buffer of want bytes. *)
InOk(want) ==
  /\ "in" \notin halted /\ out # <<>>
  /\ Head(out).kind # "stall" /\ Head(out).bytes <= want
  /\ out' = Tail(out) /\ Unless(FALSE) /\ UNCHANGED halted

InStall ==
  \/ "in" \in halted /\ Unless(FALSE) /\ UNCHANGED drive
  \/ /\ "in" \notin halted /\ out # <<>> /\ Head(out).kind = "stall"
     /\ out' = Tail(out) /\ halted' = halted \cup {"in"} /\ Unless(FALSE)

(* A drive that has nothing to send, or more than was asked for, fails the *)
(* transfer; so may any drive, before or after sending.                    *)
InFail(want) ==
  /\ "in" \notin halted
  /\ Unless(out # <<>> /\ Head(out).bytes <= want)
  /\ out' \in {out} \cup (IF out = <<>> THEN {} ELSE {Tail(out)})
  /\ UNCHANGED halted

------------------------------------------------------------------------------
(* Bot. *)

NextTag == Tag' = Tag + 1

StartBot(c) == NextTag /\ cmd' = c /\ step' = "cbw" /\ Got' = 0 /\ Data' = Nothing

Return(st) == St' = st /\ step' = "returned"

SendCbw ==
  /\ step \in {"cbw", "cbwAgain"}
  /\ \/ CbwOk /\ step' = IF Want[cmd] = 0 THEN "csw" ELSE "data"
     \/ CbwStall /\ step' = IF step = "cbw" THEN "clearOut" ELSE "reset"
     \/ CbwFail /\ step' = "reset"
  /\ UNCHANGED <<caller, Tag, Data, Got, St>>

ReceiveData ==
  /\ step = "data"
  /\ \/ InOk(Want[cmd]) /\ Data' = Head(out) /\ Got' = Head(out).bytes /\ step' = "csw"
     \/ InStall /\ step' = "clearIn" /\ UNCHANGED <<Data, Got>>
     \/ InFail(Want[cmd]) /\ step' = "reset" /\ UNCHANGED <<Data, Got>>
  /\ UNCHANGED <<caller, Tag, St>>

OwnCsw(c) == c.kind = "csw" /\ c.bytes = 13 /\ c.tag = Tag

ReceiveCsw ==
  /\ step \in {"csw", "cswAgain"}
  /\ \/ /\ InOk(13)
        /\ LET c == Head(out)
           IN  IF OwnCsw(c) /\ c.info = "passed" THEN Return("ok")
               ELSE IF OwnCsw(c) /\ c.info = "failed" THEN Return("failed")
               ELSE step' = "reset" /\ UNCHANGED St
     \/ InStall /\ step' = (IF step = "csw" THEN "clearInAgain" ELSE "reset") /\ UNCHANGED St
     \/ InFail(13) /\ step' = "reset" /\ UNCHANGED St
  /\ UNCHANGED <<caller, Tag, Data, Got>>

Cleared == [clearOut |-> "out", clearIn |-> "in", clearInAgain |-> "in"]

AfterClear == [clearOut |-> "cbwAgain", clearIn |-> "csw", clearInAgain |-> "cswAgain"]

(* The request to the drive may get lost. *)
XhciClearHalt ==
  /\ step \in DOMAIN Cleared /\ step' = AfterClear[step]
  /\ \/ Unless(FALSE) /\ halted' = halted \ {Cleared[step]}
     \/ Unless(TRUE) /\ UNCHANGED halted
  /\ UNCHANGED <<caller, Tag, Data, Got, St, out>>

(* Mutant: only the pipes are cleared. *)
ResetRecoveryPipesOnly ==
  /\ step = "reset" /\ Unless(FALSE)
  /\ halted' = {} /\ Return("lost")
  /\ UNCHANGED <<caller, Tag, Data, Got, out>>

(* Three requests, and whichever of them get lost. *)
ResetRecovery ==
  /\ step = "reset"
  /\ \E lost \in SUBSET {"reset", "in", "out"} :
       /\ Unless(lost # {})
       /\ out' = IF "reset" \in lost THEN out ELSE <<>>
       /\ halted' = halted \cap lost
  /\ Return("lost")
  /\ UNCHANGED <<caller, Tag, Data, Got>>

------------------------------------------------------------------------------
(* The callers. *)

(* MscRead, or ProbeLun as far as TEST UNIT READY. *)
Call(o) ==
  /\ op = "none" /\ ops < MaxOps
  /\ op' = o /\ ops' = ops + 1 /\ Attempt' = 0
  /\ StartBot(IF o = "read" THEN "read" ELSE "tur")
  /\ clean' = TRUE
  /\ UNCHANGED <<ret, St, drive>>

Done(r) ==
  /\ op' = "none" /\ step' = "idle" /\ ret' = r
  /\ UNCHANGED <<cmd, Attempt, Tag, Data, Got>>

Sense == StartBot("sense") /\ UNCHANGED <<op, Attempt, ret>>

Again ==
  IF Attempt + 1 = Tries[op] THEN Done(0)
  ELSE /\ StartBot(IF op = "read" THEN "read" ELSE "tur")
       /\ Attempt' = Attempt + 1 /\ UNCHANGED <<op, ret>>

SenseIs(key) == St = "ok" /\ Data.info = key

Complete == St = "ok" /\ Got = Want[cmd]

Returned ==
  /\ step = "returned"
  /\ CASE cmd = "sense" /\ op = "read" -> IF SenseIs("attention") THEN Again ELSE Done(0)
       [] cmd = "sense" /\ op = "ready" -> IF SenseIs("noMedium") THEN Done(0) ELSE Again
       [] OTHER -> IF Complete THEN Done(1) ELSE IF St = "failed" THEN Sense ELSE Again
  /\ UNCHANGED <<ops, St, drive, clean>>

Work == SendCbw \/ ReceiveData \/ ReceiveCsw \/ XhciClearHalt \/ ResetRecovery \/ Returned

Next == (\E o \in {"read", "ready"} : Call(o)) \/ Work

Spec == Init /\ [][Next]_vars

(* Each transfer ends, if only because its time is over. *)
Fairness == WF_vars(Work)

------------------------------------------------------------------------------

TypeOK ==
  /\ op \in {"none", "read", "ready"} /\ cmd \in DOMAIN Want
  /\ ops \in 0..MaxOps /\ ret \in {0, 1}
  /\ op # "none" => Attempt < Tries[op]
  /\ step \in {"idle", "cbw", "cbwAgain", "data", "csw", "cswAgain", "reset", "returned"} \cup DOMAIN Cleared
  /\ Got = Data.bytes /\ St \in {"ok", "failed", "lost"}
  /\ Len(out) < 5 /\ halted \subseteq {"in", "out"}

(* A read that reports success has all the bytes of its own last command,  *)
(* whatever an earlier one that was given up left in the drive.            *)
ReadIsOwn ==
  op = "none" /\ ret = 1 /\ cmd = "read" => Data = Item("data", Tag, 512, "none")

(* When Bot returns a status, the drive has nothing left to send and waits *)
(* for a command, even if a recovery before did not reach it.              *)
BackInStep == step = "returned" /\ St # "lost" => out = <<>> /\ halted = {}

(* The attempts of a call are enough to get back in step: as long as       *)
(* nothing goes wrong during the call itself, it succeeds, whatever state  *)
(* earlier calls left the drive in.                                        *)
CleanCallSucceeds == op = "none" /\ ops > 0 /\ clean => ret = 1

(* Every call returns, whatever the drive does. *)
CallReturns == op # "none" ~> op = "none"
==============================================================================
