----------------------------- MODULE FrameLink -----------------------------
(***************************************************************************)
(* A framed byte stream between the bridge and the PC and its decoder:     *)
(* frame_encode() and FrameReader (framing.cpp), which FrameDecoder of the *)
(* PC software repeats (transport.py).  The sender writes frame after      *)
(* frame; any byte may be lost, a run of them when the serial port is      *)
(* closed and opened again: the decoder is kept.                           *)
(*                                                                         *)
(* Abstracted: the CRC, which is one hexadecimal character here and fits   *)
(* no other payload; the characters of a payload, none of which is a "$"   *)
(* (the vehicle's packets, commands and status lines have none), told from *)
(* those of a header; the payload that is read, told by its length and by  *)
(* whether it is only such characters.                                     *)
(***************************************************************************)
EXTENDS Naturals, Sequences, SequencesExt

CONSTANTS
  Lengths,       (* of the payloads that are sent                          *)
  MaxPayload,    (* kMaxPayload                                            *)
  MaxDigits      (* of a length: one more is absurd                        *)

VARIABLES
  frame,        (* the frame being sent                                    *)
  sent,         (* how many of its bytes have been sent                    *)
  reader,       (* FrameReader: state, len_text, crc_text, payload         *)
  clean,        (* history: bytes since the last one lost, up to Settled   *)
  fair          (* history: the frame has lost no byte and began after     *)
                (* Settled others, or with the reader not in a payload     *)

vars == <<frame, sent, reader, clean, fair>>

(* Characters: the start, the comma, the newline, the decimal digits, the  *)
(* CRC of the payload of a length and the text of a payload.               *)
Start == <<"$">>
Comma == <<",">>
Newline == <<"newline">>
Digit(d) == <<"digit", d>>
Text == <<"text">>
Crc(length) == <<"crc", length>>
IsDigit(byte) == byte[1] = "digit"
IsHex(byte) == byte[1] \in {"digit", "crc"}
CrcLength == 1

(* frame_encode() *)
LengthText[length \in Nat] ==
  IF length < 10 THEN <<Digit(length)>>
  ELSE Append(LengthText[length \div 10], Digit(length % 10))
Encode(length) ==
  <<Start>> \o LengthText[length] \o <<Comma, Crc(length), Comma>>
  \o [i \in 1 .. length |-> Text] \o <<Newline>>

FrameLinkAssumption ==
  /\ MaxPayload \in Nat /\ Lengths \subseteq 0 .. MaxPayload
  /\ MaxDigits \in Nat /\ \A length \in Lengths : Len(LengthText[length]) <= MaxDigits

Number(text) == FoldLeft(LAMBDA n, byte : 10 * n + byte[2], 0, text)

(* What a decoder may swallow after the last byte lost: the rest of a      *)
(* header that is read as one, and the longest payload.                    *)
Settled == MaxPayload + MaxDigits + CrcLength + 2

-----------------------------------------------------------------------------
(* feed(): each operator returns the reader after the byte and the length  *)
(* of the payload it delivers, with a CRC that fits, or None.              *)

Idle == [state |-> "idle", len_text |-> <<>>, crc_text |-> <<>>, payload |-> [size |-> 0, text |-> TRUE]]
InLength == [Idle EXCEPT !.state = "len"]
None == MaxPayload + 1
To(r) == [reader |-> r, delivers |-> None]

FeedIdle(byte) == To(IF byte = Start THEN InLength ELSE Idle)

FeedLength(r, byte) ==
  CASE IsDigit(byte) ->
         To(IF Len(r.len_text) < MaxDigits
            THEN [r EXCEPT !.len_text = Append(r.len_text, byte)] ELSE Idle)
    [] byte = Comma /\ r.len_text # <<>> ->
         To(IF Number(r.len_text) > MaxPayload THEN Idle ELSE [r EXCEPT !.state = "crc"])
    [] byte = Start -> To(InLength)
    [] OTHER -> To(Idle)

(* At the last byte of a payload, or at once when it has none. *)
Finish(r) ==
  [reader |-> Idle,
   delivers |-> IF r.payload.text /\ r.crc_text = <<Crc(r.payload.size)>>
                THEN r.payload.size ELSE None]

FeedCrcDroppingStart(r, byte) ==   \* mutant: a "$" in a header is dropped with it
  CASE IsHex(byte) ->
         To(IF Len(r.crc_text) < CrcLength
            THEN [r EXCEPT !.crc_text = Append(r.crc_text, byte)] ELSE Idle)
    [] byte = Comma /\ Len(r.crc_text) = CrcLength ->
         IF Number(r.len_text) = 0 THEN Finish(r) ELSE To([r EXCEPT !.state = "payload"])
    [] OTHER -> To(Idle)

FeedCrc(r, byte) ==
  CASE IsHex(byte) ->
         To(IF Len(r.crc_text) < CrcLength
            THEN [r EXCEPT !.crc_text = Append(r.crc_text, byte)] ELSE Idle)
    [] byte = Start -> To(InLength)
    [] byte = Comma /\ Len(r.crc_text) = CrcLength ->
         IF Number(r.len_text) = 0 THEN Finish(r) ELSE To([r EXCEPT !.state = "payload"])
    [] OTHER -> To(Idle)

FeedPayload(r, byte) ==
  LET longer == [r EXCEPT !.payload = [size |-> r.payload.size + 1,
                                        text |-> r.payload.text /\ byte = Text]]
  IN IF longer.payload.size < Number(r.len_text) THEN To(longer) ELSE Finish(longer)

Feed(r, byte) ==
  CASE r.state = "idle" -> FeedIdle(byte)
    [] r.state = "len" -> FeedLength(r, byte)
    [] r.state = "crc" -> FeedCrc(r, byte)
    [] r.state = "payload" -> FeedPayload(r, byte)

-----------------------------------------------------------------------------
Init ==
  /\ \E length \in Lengths : frame = Encode(length)
  /\ sent = 0 /\ reader = Idle /\ clean = Settled /\ fair = TRUE

(* The next byte goes out; after the last one, another frame is begun. *)
Advance ==
  IF sent + 1 < Len(frame)
  THEN sent' = sent + 1 /\ UNCHANGED frame
  ELSE sent' = 0 /\ \E length \in Lengths : frame' = Encode(length)

Receive ==
  /\ Advance
  /\ reader' = Feed(reader, frame[sent + 1]).reader
  /\ clean' = IF clean < Settled THEN clean + 1 ELSE clean
  /\ fair' = IF sent' = 0 THEN clean' = Settled \/ reader'.state # "payload" ELSE fair

Lose ==
  /\ Advance
  /\ clean' = 0
  /\ fair' = (sent' = 0 /\ reader.state # "payload")
  /\ UNCHANGED reader

Next == Receive \/ Lose

Spec == Init /\ [][Next]_vars

-----------------------------------------------------------------------------
(* Properties. *)

TypeOK ==
  /\ \E length \in Lengths : frame = Encode(length)
  /\ sent \in 0 .. Len(frame) - 1
  /\ reader.state \in {"idle", "len", "crc", "payload"}
  /\ Len(reader.len_text) <= MaxDigits /\ Len(reader.crc_text) <= CrcLength
  /\ reader.state = "payload" => reader.payload.size < Number(reader.len_text)
  /\ Number(reader.len_text) > MaxPayload => reader.state = "len"
  /\ clean \in 0 .. Settled /\ fair \in BOOLEAN

(* A frame that arrives whole is delivered, at its last payload byte and   *)
(* as it was sent, if the reader is not in the payload of a damaged one    *)
(* when it begins: a damaged header never costs the next frame.  And no    *)
(* damage puts the reader into a payload for longer than the longest one:  *)
(* after Settled bytes without loss every frame is delivered.              *)
WholeFrame ==
  fair /\ clean' # 0 =>
    LET delivers == Feed(reader, frame[sent + 1]).delivers
    IN \A length \in Lengths :
         frame = Encode(length) /\ sent = Len(frame) - 2 => delivers = length

Delivered == [][WholeFrame]_vars
=============================================================================
