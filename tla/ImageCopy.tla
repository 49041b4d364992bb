------------------------------ MODULE ImageCopy ------------------------------
(***************************************************************************)
(* What growisofs promises of one session: the blocks of the image arrive  *)
(* on the medium in order, the volume descriptors at its beginning are     *)
(* replaced only when the whole image is there, and the program reports    *)
(* success only then.                                                      *)
(***************************************************************************)
EXTENDS Naturals, Sequences

VARIABLES
    image,      \* the blocks the input amounts to; it never changes
    short,      \* is the image too short to be one?
    medium,     \* the blocks written so far
    relocated,  \* were the volume descriptors replaced?
    status      \* "running", "ok" or how the program failed

vars == <<image, short, medium, relocated, status>>

Whole == Len(medium) = Len(image)

Init == medium = <<>> /\ relocated = FALSE /\ status = "running"

WriteBlock == /\ status = "running" /\ ~relocated /\ ~Whole
              /\ medium' = Append(medium, image[Len(medium) + 1])
              /\ UNCHANGED <<relocated, status>>

Relocate == /\ status = "running" /\ Whole
            /\ relocated' = TRUE
            /\ UNCHANGED <<medium, status>>

\* An image that is too short is not written at all; the promise leaves open
\* how that is reported.
Succeed == /\ status = "running"
           /\ Whole \/ (short /\ medium = <<>>)
           /\ status' = "ok"
           /\ UNCHANGED <<medium, relocated>>

Fail == /\ status = "running"
        /\ status' # "running" /\ status' # "ok"
        /\ UNCHANGED <<medium, relocated>>

Next == /\ WriteBlock \/ Relocate \/ Succeed \/ Fail
        /\ UNCHANGED <<image, short>>

Spec == Init /\ [][Next]_vars
==============================================================================
