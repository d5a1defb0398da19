-------------------------- MODULE OrderedDelivery ---------------------------
(***************************************************************************)
(* What MessageQueue promises its producer: the items it sends are         *)
(* delivered in the order of sending, each once; published ones for        *)
(* certain; and a call that waits comes back when all of them are.         *)
(***************************************************************************)
EXTENDS Naturals, Sequences

CONSTANT Item

VARIABLES sent,        \* the items sent so far
          published,   \* how many of them the receiver may take
          delivered,   \* the items delivered so far
          blocked      \* the sender waits for everything it sent

vars == <<sent, published, delivered, blocked>>

Init == sent = <<>> /\ published = 0 /\ delivered = <<>> /\ blocked = FALSE

Send ==
  /\ ~blocked
  /\ sent' # <<>> /\ sent'[Len(sent')] \in Item
  /\ SubSeq(sent', 1, Len(sent') - 1) = sent
  /\ published' \in {published, Len(sent')}
  /\ blocked' \in IF published' = published THEN {FALSE} ELSE BOOLEAN
  /\ UNCHANGED delivered

Publish ==
  /\ ~blocked
  /\ published' = Len(sent)
  /\ UNCHANGED <<sent, delivered, blocked>>

Deliver ==
  /\ Len(delivered) < published
  /\ delivered' = Append(delivered, sent[Len(delivered) + 1])
  /\ UNCHANGED <<sent, published, blocked>>

Return ==
  /\ blocked /\ delivered = sent
  /\ blocked' = FALSE
  /\ UNCHANGED <<sent, published, delivered>>

Next == Send \/ Publish \/ Deliver \/ Return

\* Safety alone, and with what the receiver owes the sender
Safety == Init /\ [][Next]_vars

Spec == Safety /\ WF_vars(Deliver) /\ WF_vars(Return)
=============================================================================
