-------------------------------- MODULE Gps --------------------------------
(***************************************************************************)
(* The position, from the bytes of the receiver to the snapshot the        *)
(* packets are built from: flight::NmeaParser (gps_parser.cpp), the driver *)
(* that stamps its fix clock (neo6m.cpp) and the GPS part of               *)
(* acquire_sensors() (controller.cpp).                                     *)
(*                                                                         *)
(* One step is what the loop hears of one sentence of the receiver, whole  *)
(* or damaged, or of a silence as long.  A sentence is its "$", its body,  *)
(* its checksum and its newline; a lead that comes and goes leaves its     *)
(* beginning or its end, a byte lost on the line costs one of the four.    *)
(* Ages are in such passes and stop growing at MaxAge.                     *)
(*                                                                         *)
(* Abstracted: the fields of a sentence, told by what apply_sentence()     *)
(* decides on them; the time of day and the counters, which nothing here   *)
(* reads; kMaxBytesPerPoll, which is more than a receiver sends in a pass. *)
(***************************************************************************)
EXTENDS Naturals, Sequences, SequencesExt

CONSTANTS
  FixTimeout,   (* gps_fix_timeout_ms                                      *)
  MaxLine       (* kMaxSentence, in parts of a sentence                    *)

(* There is room for a sentence (of the 100 characters of kMaxSentence a   *)
(* fix takes some 70), and maybe for the end of another behind it.         *)
GpsAssumption == FixTimeout \in Nat /\ MaxLine \in Nat /\ MaxLine >= 3

VARIABLES
  line,             (* buffer_ and length_                                 *)
  overflowed,
  latest,           (* latest_: is the fix valid, is the course           *)
  fix_age,          (* now - last_fix_ms_                                  *)
  gps_valid,        (* snapshot_.gps.valid                                 *)
  line_age,         (* history: since the body of the line                 *)
  measured,         (* history: since the body of the position in latest   *)
  pieced            (* history: did a later pass end that line?            *)

vars ==
  <<line, overflowed, latest, fix_age, gps_valid, line_age, measured, pieced>>

(* A GGA with a fix the gates take, with one they refuse, with none        *)
(* (quality 0) and with impossible coordinates; an RMC with a course, with *)
(* none, a void one and a corrupt one; any other sentence.                 *)
Contents == {"fix", "poor_fix", "no_fix", "bad_fix",
             "course", "no_course", "void", "bad_course", "other"}

Start == <<"$">>
Newline == <<"newline">>
Sentence(content) == <<Start, <<"body", content>>, <<"checksum", content>>, Newline>>

(* The parts that may be all that is heard of a sentence: a beginning that *)
(* is cut in its body (what is left of which no checksum fits, as if there *)
(* were none), an end, all but one.                                        *)
Whole == 1 .. 4
Damaged == {{1}} \cup {n .. 4 : n \in 2 .. 4} \cup {Whole \ {n} : n \in Whole}

MaxAge == FixTimeout + 2
Older(age) == IF age < MaxAge THEN age + 1 ELSE age

-----------------------------------------------------------------------------
(* apply_sentence() *)

(* What stands up to its checksum; what follows it is ignored. *)
Read(buffer) ==
  {content \in Contents : IsPrefix(SubSeq(Sentence(content), 1, 3), buffer)}

RenewsAnyFix(content) ==   \* mutant: a refused sentence is an applied one
  content \in {"fix", "poor_fix", "no_fix", "void"}

(* What it returns: did the sentence change the fix? *)
Applies(content) == content \in {"fix", "no_fix", "void"}

Fixed(fix, content) ==
  CASE content = "fix" -> TRUE
    [] content \in {"no_fix", "bad_fix", "void", "bad_course"} -> FALSE
    [] OTHER -> fix

Course(course, content) ==
  CASE content = "course" -> TRUE
    [] content \in {"no_fix", "no_course", "void", "bad_course"} -> FALSE
    [] OTHER -> course

-----------------------------------------------------------------------------
(* consume(), on the parser p: its line and its data, whether any sentence *)
(* so far stamps the fix clock (Neo6mGps::poll), the age of the position   *)
(* and of the line it was read from.                                       *)

EndLine(p) ==
  LET read == IF p.overflowed THEN {} ELSE Read(p.line)
      blank == [p EXCEPT !.line = <<>>, !.overflowed = FALSE]
  IN IF read = {} THEN blank
     ELSE LET content == CHOOSE c \in read : TRUE
              fix == Fixed(p.latest.fix, content)
          IN [blank EXCEPT
                !.latest = [fix |-> fix, course |-> Course(p.latest.course, content)],
                !.stamped = p.stamped \/ (Applies(content) /\ fix),
                !.measured = IF content = "fix" THEN p.line_age ELSE p.measured,
                !.pieced = IF content = "fix" THEN p.line_age # 0 ELSE p.pieced]

Consume(p, part) ==
  IF part = Newline THEN EndLine(p)
  ELSE LET opened == IF part = Start
                     THEN [p EXCEPT !.line = <<>>, !.overflowed = FALSE]
                     ELSE p
           age == IF p.line = <<Start>> THEN 0 ELSE p.line_age
       IN IF Len(opened.line) < MaxLine
          THEN [opened EXCEPT !.line = Append(opened.line, part), !.line_age = age]
          ELSE [opened EXCEPT !.overflowed = TRUE]

-----------------------------------------------------------------------------
Init ==
  /\ line = <<>> /\ overflowed = FALSE
  /\ latest = [fix |-> FALSE, course |-> FALSE]
  /\ fix_age = 0 /\ line_age = 0 /\ measured = 0 /\ pieced = FALSE
  /\ gps_valid = FALSE

(* poll() of the driver, its parser p after what has arrived, and the      *)
(* snapshot after it.                                                      *)
Pass(p) ==
  /\ line' = p.line /\ overflowed' = p.overflowed
  /\ latest' = p.latest
  /\ fix_age' = IF p.stamped THEN 0 ELSE Older(fix_age)
  /\ gps_valid' = (latest'.fix /\ fix_age' <= FixTimeout)
  /\ line_age' = p.line_age /\ measured' = p.measured /\ pieced' = p.pieced

Parser ==
  [line |-> line, overflowed |-> overflowed, latest |-> latest, stamped |-> FALSE,
   line_age |-> Older(line_age), measured |-> Older(measured), pieced |-> pieced]

(* After the parts of a sentence that are heard. *)
Heard(content, parts) ==
  LET Part(p, i) == IF i \in parts THEN Consume(p, Sentence(content)[i]) ELSE p
  IN Part(Part(Part(Part(Parser, 1), 2), 3), 4)

Silence == Pass(Parser)

Receive(content) == Pass(Heard(content, Whole))

ReceiveDamaged(content, parts) == Pass(Heard(content, parts))

Next ==
  \/ Silence
  \/ \E content \in Contents : Receive(content)
  \/ \E content \in Contents, parts \in Damaged : ReceiveDamaged(content, parts)

Spec == Init /\ [][Next]_vars

-----------------------------------------------------------------------------
(* Properties. *)

TypeOK ==
  /\ line \in Seq({Start} \cup ({"body", "checksum"} \X Contents))
  /\ Len(line) <= MaxLine
  /\ {overflowed, gps_valid, pieced} \subseteq BOOLEAN
  /\ latest \in [fix : BOOLEAN, course : BOOLEAN]
  /\ {fix_age, line_age, measured} \subseteq 0 .. MaxAge

(* A position in a packet was measured within gps_fix_timeout_ms, whatever *)
(* the receiver says or leaves out afterwards: fixes the gates refuse,     *)
(* tracks without a position, damaged sentences, silence.  "A receiver     *)
(* that stopped talking mid-descent would keep publishing the position it  *)
(* last saw" (controller.cpp).  The one exception is a position whose line *)
(* lost its newline and was ended by a later pass: the fix clock starts    *)
(* then, whatever the age of the line.  So a lead that is pulled before    *)
(* the newline of a fix, and makes contact again in the last characters of *)
(* another sentence, dates a position of any age to now.  That is less     *)
(* than config.hpp:352-361 says of the timeout, that "a frozen position    *)
(* never survives more than a few telemetry packets".                      *)
PositionFresh == gps_valid /\ ~pieced => measured <= FixTimeout
=============================================================================
