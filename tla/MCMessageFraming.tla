-------------------------- MODULE MCMessageFraming --------------------------
EXTENDS MessageFraming
(* SentFrames whose bytes are told apart by their place k in the session: with *)
(* a length, with another line before it, with a blank line in the JSON,   *)
(* not JSON, and without a length.                                         *)
Chars(k, n) == [i \in 1..n |-> Other(10 * k + i)]
Asking(k, n) == Frame(<<LengthLine(n)>>, Chars(k, n), TRUE)
Typed(k, n) == Frame(<<Other(1), LengthLine(n)>>, Chars(k, n), TRUE)
BlankLine(k) == Frame(<<LengthLine(4)>>, <<Other(10*k+1), LineEnd, LineEnd, Other(10*k+2)>>, TRUE)
Broken(k) == Frame(<<LengthLine(3)>>, Chars(k, 3), FALSE)
Headless(k, n) == Frame(<<Other(2)>>, Chars(k, n), FALSE)
FramesAt(k) == {Asking(k, 1), Asking(k, 3), Typed(k, 2), BlankLine(k), Broken(k),
                Headless(k, 0), Headless(k, 2)}
Sessions == {<<a, b, c>> : a \in FramesAt(1), b \in FramesAt(2), c \in FramesAt(3)}
=============================================================================
