----------------------------- MODULE RadarParser -----------------------------
(***************************************************************************)
(* radar_read_data of radar_processor.c: an automaton that takes one byte  *)
(* at a time off the serial line and looks for frames, in calls that stop  *)
(* at the first frame or when no byte has arrived.  Its state, the buffer  *)
(* and the index are static: they live from one call to the next.          *)
(*                                                                         *)
(* A frame is two header bytes, a payload and a check byte.  The line may  *)
(* carry any bytes in any order: noise between frames, and frames of which *)
(* the rest is lost.                                                       *)
(***************************************************************************)
EXTENDS Naturals, Sequences

CONSTANTS Bytes,
          Head1, Head2,    \* 0xAA and 0x55
          PayloadLength,   \* 14
          Checksum,        \* of every payload: the xor of its bytes
          NoFrame

Payloads == [1 .. PayloadLength -> Bytes]

ASSUME ParserAssumption ==
  /\ Head1 \in Bytes
  /\ Head2 \in Bytes
  /\ Head1 # Head2
  /\ PayloadLength \in Nat \ {0}
  /\ Checksum \in [Payloads -> Bytes]
  /\ NoFrame \notin Payloads

Frame(p) == <<Head1, Head2>> \o p \o <<Checksum[p]>>

FrameLength == PayloadLength + 3

(* No byte behind the header can be taken for the start of a frame.        *)
Clean(p) == Checksum[p] # Head1 /\ \A i \in 1 .. PayloadLength : p[i] # Head1

VARIABLES line,      \* bytes on their way to the process, at most one frame
          noisy,     \* the line may still be disturbed
          state,     \* static parse_state_t state
          buf,       \* static frame_buf, up to frame_idx
          caller,    \* the radar thread: "away", in the call or back with a frame
          detection, \* what the call has filled in
          wire,      \* history: bytes read since the last frame, the latest ones
          intact,    \* history: the frame on the line is clean and whole
          missed     \* history: whole clean frames gone by since the line was
                     \*          last disturbed or a frame last recognised

vars == <<line, noisy, state, buf, caller, detection, wire, intact, missed>>

Init == /\ line = << >>
        /\ noisy = TRUE
        /\ state = "IDLE"
        /\ buf = << >>
        /\ caller = "away"
        /\ detection = NoFrame
        /\ wire = << >>
        /\ intact = FALSE
        /\ missed = 0

-----------------------------------------------------------------------------
(* The line                                                                *)

SendFrame(p) == /\ line = << >>
                /\ line' = Frame(p)
                /\ intact' = Clean(p)
                /\ missed' = IF Clean(p) THEN missed ELSE 0
                /\ UNCHANGED <<noisy, state, buf, caller, detection, wire>>

Noise(b) == /\ noisy
            /\ line = << >>
            /\ line' = <<b>>
            /\ intact' = FALSE
            /\ missed' = 0
            /\ UNCHANGED <<noisy, state, buf, caller, detection, wire>>

(* The rest of a frame is lost; Noise makes up what comes instead.         *)
Lose == /\ noisy
        /\ line # << >>
        /\ line' = << >>
        /\ intact' = FALSE
        /\ missed' = 0
        /\ UNCHANGED <<noisy, state, buf, caller, detection, wire>>

Quiet == /\ noisy
         /\ noisy' = FALSE
         /\ UNCHANGED <<line, state, buf, caller, detection, wire, intact,
                        missed>>

-----------------------------------------------------------------------------
(* The calls                                                               *)

Call == /\ caller = "away"
        /\ caller' = "reading"
        /\ UNCHANGED <<line, noisy, state, buf, detection, wire, intact, missed>>

(* read() has no byte yet, whatever is on its way.                         *)
NothingYet == /\ caller = "reading"
              /\ caller' = "away"
              /\ UNCHANGED <<line, noisy, state, buf, detection, wire, intact,
                             missed>>

(* The thread converts the detection, pushes it, sleeps and comes back.    *)
HandOver == /\ caller = "back"
            /\ caller' = "away"
            /\ detection' = NoFrame
            /\ wire' = << >>
            /\ UNCHANGED <<line, noisy, state, buf, intact, missed>>

-----------------------------------------------------------------------------
(* The automaton                                                           *)

(* Only the last FrameLength bytes can matter to a frame.                  *)
Window(bytes) == IF Len(bytes) > FrameLength THEN Tail(bytes) ELSE bytes

LastOfFrame == intact /\ Len(line) = 1

Read == /\ caller = "reading"
        /\ line # << >>
        /\ line' = Tail(line)
        /\ wire' = Window(Append(wire, Head(line)))
        /\ UNCHANGED <<noisy, intact>>

GoesOn == /\ missed' = IF LastOfFrame THEN missed + 1 ELSE missed
          /\ UNCHANGED <<caller, detection>>

Idle == /\ state = "IDLE"
        /\ Read
        /\ state' = IF Head(line) = Head1 THEN "HEAD1" ELSE "IDLE"
        /\ UNCHANGED buf
        /\ GoesOn

HeaderBug == /\ state = "HEAD1"
             /\ Read
             /\ state' = IF Head(line) = Head2 THEN "DATA" ELSE "IDLE"
             /\ UNCHANGED buf  \* frame_idx is not reset
             /\ GoesOn

HeaderAnyBug == /\ state = "HEAD1"
                /\ Read
                /\ state' = "DATA"  \* the second header is not checked
                /\ buf' = << >>
                /\ GoesOn

(* A byte that is not the second header is not looked at again, even if it *)
(* is the first one.                                                       *)
Header == /\ state = "HEAD1"
          /\ Read
          /\ IF Head(line) = Head2
             THEN state' = "DATA" /\ buf' = << >>
             ELSE state' = "IDLE" /\ UNCHANGED buf
          /\ GoesOn

Data == /\ state = "DATA"
        /\ Read
        /\ buf' = Append(buf, Head(line))
        /\ state' = IF Len(buf') >= PayloadLength THEN "CHECK" ELSE "DATA"
        /\ GoesOn

RejectBug == /\ state = "CHECK"
             /\ Read
             /\ Head(line) # Checksum[buf]
             /\ UNCHANGED <<state, buf>>  \* waits on for the check byte
             /\ GoesOn

Reject == /\ state = "CHECK"
          /\ Read
          /\ Head(line) # Checksum[buf]
          /\ state' = "IDLE"
          /\ UNCHANGED buf
          /\ GoesOn

Accept == /\ state = "CHECK"
          /\ Read
          /\ Head(line) = Checksum[buf]
          /\ state' = "IDLE"
          /\ detection' = buf
          /\ caller' = "back"
          /\ missed' = IF LastOfFrame THEN 0 ELSE missed
          /\ UNCHANGED buf

Byte == Idle \/ Header \/ Data \/ Reject \/ Accept

-----------------------------------------------------------------------------
Next == \/ \E p \in Payloads : SendFrame(p)
        \/ \E b \in Bytes : Noise(b)
        \/ Lose
        \/ Quiet
        \/ Call
        \/ NothingYet
        \/ HandOver
        \/ Byte

Spec == Init /\ [][Next]_vars

(* The thread keeps calling, a byte on its way arrives in some call, the   *)
(* radar keeps sending and the noise ends.                                 *)
Fairness == /\ WF_vars(Call)
            /\ WF_vars(HandOver)
            /\ SF_vars(Byte)
            /\ WF_vars(\E p \in Payloads : SendFrame(p))
            /\ WF_vars(Quiet)

FairSpec == Spec /\ Fairness

-----------------------------------------------------------------------------
States == {"IDLE", "HEAD1", "DATA", "CHECK"}

(* Types; and frame_idx never leaves frame_buf (radar_processor.c:198),    *)
(* whatever comes over the line and wherever the calls are cut.            *)
TypeOK == /\ line \in Seq(Bytes)
          /\ noisy \in BOOLEAN
          /\ state \in States
          /\ buf \in Seq(Bytes)
          /\ Len(buf) <= PayloadLength
          /\ state = "DATA" => Len(buf) < PayloadLength
          /\ state = "CHECK" => Len(buf) = PayloadLength
          /\ caller \in {"away", "reading", "back"}
          /\ detection \in Payloads \cup {NoFrame}
          /\ wire \in Seq(Bytes)
          /\ intact \in BOOLEAN
          /\ missed \in Nat

(* A detection is a frame that has come over the line without a gap and    *)
(* since the previous detection: never a payload with a wrong check byte,  *)
(* bytes of two frames, or a byte used twice (radar_processor.c:171, 208). *)
OnlyValidFrames ==
  caller = "back" =>
    /\ detection # NoFrame
    /\ Len(wire) >= FrameLength
    /\ SubSeq(wire, Len(wire) - FrameLength + 1, Len(wire)) = Frame(detection)

(* After a disturbance at most one frame is missed, whatever it was and    *)
(* wherever it left the automaton, as long as the frames that follow hold  *)
(* no first header byte behind their header (radar_processor.c:184-224).   *)
MissesAtMostOne == missed <= 1

-----------------------------------------------------------------------------
(* radar_processor.c:171 promises to handle byte alignment, lost bytes and *)
(* interference by itself: when the noise is over, frames are recognised.  *)
(* The code does not do this for a target that stands still, so that its   *)
(* frames repeat, and whose check byte or payload holds the first header   *)
(* byte: the automaton may take that byte for a header, and drop the real  *)
(* one, in every frame.                                                    *)
RadarRealigns == ~noisy ~> caller = "back"
=============================================================================
