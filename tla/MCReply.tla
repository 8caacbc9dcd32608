------------------------------- MODULE MCReply -------------------------------
EXTENDS Reply

\* A line longer than the buffers, and one with a carriage return in its midst
MCCommand == {<<97, 97, 97, 97, 97, CR, LF>>, <<97, 97, CR, 97, 97, LF>>}
MCUnfinished == {<<97, 97>>}
MCChunk == {<<DOT>>, <<97, CR>>, <<LF>>}

Abstract == INSTANCE Dialogue WITH
    asked <- Len(sent),
    answered <- Len(SelectSeq(replies, LAMBDA r : r.code \in {Ok, NoMatch})),
    over <- pc = "ended"

\* The session keeps the promise of Dialogue: dicod_loop answers the commands in
\* turn and each of them in the end, unless the session ends; RepliesInStep says
\* that its client sees it so.
Answers == Abstract!Spec
=============================================================================
