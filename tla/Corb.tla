-------------------------------- MODULE Corb --------------------------------
(***************************************************************************)
(* The dialogue of hda.c with a sound codec (SetupCorbRirb, SendVerb): the *)
(* driver puts a verb into one ring, the codec's responses come in another.*)
(* A response does not say which verb it answers.  Verbs are known by      *)
(* their number, unsolicited responses are 0.                              *)
(***************************************************************************)
EXTENDS Naturals, Sequences, FiniteSets

CONSTANTS
  CorbEntries, RirbEntries,    (* the rings' sizes: 256, 16 or 2           *)
  Codecs,                      (* what the codec is like: "prompt" answers *)
                               (* every verb in time, a "slow" one may not *)
  MaxVerbs, MaxUnsolicited     (* bounds                                   *)

CorbConstants ==
  /\ CorbEntries \in Nat /\ CorbEntries > 1
  /\ RirbEntries \in Nat /\ RirbEntries > 1
  /\ Codecs \subseteq {"prompt", "slow"}
  /\ MaxVerbs \in Nat /\ MaxUnsolicited \in Nat

VARIABLES
  kind,                        (* the codec's                              *)
  Corb, CorbWritePos,          (* the driver's side                        *)
  RirbReadPos,
  pc,
  verb, answer,                (* the last verb, what SendVerb returned    *)
  \* the controller and the codec
  corbRp, Rirb, rirbWp,
  unsolicited,
  \* history
  used                         (* the responses that were returned         *)

sender == <<Corb, CorbWritePos, RirbReadPos, pc, verb, answer, used>>
vars == <<kind, sender, corbRp, Rirb, rirbWp, unsolicited>>

(* SetupCorbRirb: both rings are empty, and cleared.                       *)
Init ==
  /\ kind \in Codecs
  /\ Corb = [k \in 0..(CorbEntries - 1) |-> 0] /\ CorbWritePos = 0 /\ corbRp = 0
  /\ Rirb = [k \in 0..(RirbEntries - 1) |-> 0] /\ RirbReadPos = 0 /\ rirbWp = 0
  /\ pc = "idle" /\ verb = 0 /\ answer = 0
  /\ unsolicited = 0 /\ used = <<>>

(* SendVerb, as far as its loop.                                           *)
SendVerb ==
  /\ pc = "idle" /\ verb < MaxVerbs
  /\ LET NextPos == (CorbWritePos + 1) % CorbEntries
     IN  Corb' = [Corb EXCEPT ![NextPos] = verb + 1] /\ CorbWritePos' = NextPos
  /\ verb' = verb + 1 /\ pc' = "wait"
  /\ UNCHANGED <<kind, RirbReadPos, answer, corbRp, Rirb, rirbWp, unsolicited, used>>

AfterRead == (RirbReadPos + 1) % RirbEntries

Response == Rirb[AfterRead]

Waiting == pc = "wait" /\ RirbReadPos # rirbWp

(* One response is taken out; an unsolicited one is passed over.           *)
TakeResponse ==
  /\ Waiting
  /\ RirbReadPos' = AfterRead
  /\ \/ Response = 0 /\ UNCHANGED <<pc, answer, used>>
     \/ /\ Response # 0
        /\ answer' = Response /\ used' = Append(used, Response) /\ pc' = "idle"
  /\ UNCHANGED <<kind, Corb, CorbWritePos, verb, corbRp, Rirb, rirbWp, unsolicited>>

(* A million rounds without a response: 0, and the verb is forgotten.      *)
TimeOut ==
  /\ kind = "slow" /\ pc = "wait" /\ ~Waiting
  /\ answer' = 0 /\ pc' = "idle"
  /\ UNCHANGED <<kind, Corb, CorbWritePos, RirbReadPos, verb, corbRp, Rirb, rirbWp, unsolicited, used>>

AfterWrite == (rirbWp + 1) % RirbEntries

Respond(r) == AfterWrite # RirbReadPos /\ Rirb' = [Rirb EXCEPT ![AfterWrite] = r] /\ rirbWp' = AfterWrite

Answer ==
  /\ corbRp # CorbWritePos
  /\ corbRp' = (corbRp + 1) % CorbEntries
  /\ Respond(Corb[corbRp'])
  /\ UNCHANGED <<kind, sender, unsolicited>>

Unsolicited ==
  /\ unsolicited < MaxUnsolicited /\ unsolicited' = unsolicited + 1
  /\ Respond(0)
  /\ UNCHANGED <<kind, sender, corbRp>>

Next == SendVerb \/ TakeResponse \/ TimeOut \/ Answer \/ Unsolicited

Spec == Init /\ [][Next]_vars

------------------------------------------------------------------------------

TypeOK ==
  /\ CorbWritePos \in 0..(CorbEntries - 1) /\ corbRp \in 0..(CorbEntries - 1)
  /\ RirbReadPos \in 0..(RirbEntries - 1) /\ rirbWp \in 0..(RirbEntries - 1)
  /\ verb \in 0..MaxVerbs /\ answer \in 0..MaxVerbs

(* With a codec that answers in time, what SendVerb returns is the answer  *)
(* to its own verb, whatever else the codec says in between and however    *)
(* often the rings have come round.                                        *)
AnswerIsOwn == kind = "prompt" /\ pc = "idle" => answer = verb

(* When answers come late they still come in order: SendVerb returns no    *)
(* answer twice and none older than one it has returned.  It may return    *)
(* the answer to an earlier verb, and will from then on.                   *)
AnswersInOrder == \A j, k \in DOMAIN used : j < k => used[j] < used[k]
==============================================================================
