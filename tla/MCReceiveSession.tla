-------------------------- MODULE MCReceiveSession --------------------------
(***************************************************************************)
(* Instances of ReceiveSession for TLC.                                    *)
(***************************************************************************)
EXTENDS ReceiveSession, TLC

CONSTANTS r1, r2, r3, ip1, ip2, f1, f2, f3, f4

TwoSenders == r1 :> ip1 @@ r2 :> ip2

TwoFilesThenOne == r1 :> {f1, f2} @@ r2 :> {f3}
OneFileEach     == r1 :> {f1} @@ r2 :> {f3}

\* The third request is a text message of the first sender.
ThreeRequests == TwoSenders @@ r3 :> ip1
WithMessage   == TwoFilesThenOne @@ r3 :> {f4}

\* Upload handlers are interchangeable, and so are the files of the first
\* request.
Interchangeable == Permutations(Upload) \cup Permutations({f1, f2})

==============================================================================
