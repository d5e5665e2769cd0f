----------------------------- MODULE ClaudeEvents -----------------------------
(***************************************************************************)
(* What a stream of Claude events promises its reader (the comment on      *)
(* claudeMessagesMerger): a message starts once; its blocks follow each    *)
(* other, numbered from 0, each started once, stopped once, with its       *)
(* deltas in between; a message_delta comes when no block is open, and     *)
(* nothing after message_stop.  An upstream that sends no chunk at all     *)
(* makes a message_stop without a start.  A reader that has left is        *)
(* promised nothing.                                                       *)
(***************************************************************************)
EXTENDS Naturals

VARIABLES
    stage,   \* fresh, message, block, told, ended or abandoned
    blocks,  \* how many blocks have been started
    event,   \* the last event, with its type and the index of its block
    count    \* how many events there were

Event(type, index) == [type |-> type, index |-> index]
Sent(type, index) ==
    /\ event' = Event(type, index)
    /\ count' = count + 1

Init ==
    /\ stage = "fresh"
    /\ blocks = 0
    /\ event = Event("none", 0)
    /\ count = 0

MessageStart ==
    /\ stage = "fresh"
    /\ stage' = "message"
    /\ Sent("message_start", 0)
    /\ UNCHANGED blocks

BlockStart ==
    /\ stage = "message"
    /\ stage' = "block"
    /\ Sent("content_block_start", blocks)
    /\ blocks' = blocks + 1

BlockDelta ==
    /\ stage = "block"
    /\ Sent("content_block_delta", blocks - 1)
    /\ UNCHANGED <<stage, blocks>>

BlockStop ==
    /\ stage = "block"
    /\ stage' = "message"
    /\ Sent("content_block_stop", blocks - 1)
    /\ UNCHANGED blocks

MessageDelta ==
    /\ stage = "message"
    /\ stage' = "told"
    /\ Sent("message_delta", 0)
    /\ UNCHANGED blocks

MessageStop ==
    /\ stage \in {"fresh", "message", "told"}
    /\ stage' = "ended"
    /\ Sent("message_stop", 0)
    /\ UNCHANGED blocks

\* The reader leaves; what is sent from then on is nobody's.
Abandon == stage' = "abandoned"

Next ==
    \/ MessageStart \/ BlockStart \/ BlockDelta \/ BlockStop \/ MessageDelta \/ MessageStop
    \/ Abandon

Spec == Init /\ [][Next]_<<stage, blocks, event, count>>
=============================================================================
