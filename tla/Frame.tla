-------------------------------- MODULE Frame --------------------------------
(***************************************************************************)
(* The length of a WebSocket frame (encode_frame and read_frame of         *)
(* src/main.cpp): the bytes after the first one, up to mask and payload.   *)
(* A size is below 2^31 here, so the upper four of eight bytes are zero.   *)
(***************************************************************************)
EXTENDS Naturals, Sequences, SequencesExt

Bytes(n, width) ==
  [i \in 1 .. width |-> IF width - i >= 4 THEN 0 ELSE (n \div 256 ^ (width - i)) % 256]

(* Mutant: 65536 is written in two bytes. *)
EncodeFrameShort(size) ==
  CASE size < 126                  -> <<size>>
    [] size >= 126 /\ size <= 65536 -> <<126>> \o Bytes(size, 2)
    [] OTHER                       -> <<127>> \o Bytes(size, 8)

EncodeFrame(size) ==
  CASE size < 126                       -> <<size>>
    [] size >= 126 /\ size <= 65535     -> <<126>> \o Bytes(size, 2)
    [] OTHER                            -> <<127>> \o Bytes(size, 8)

(* The length, and how many bytes told it. *)
ReadFrame(bytes) ==
  LET width == CASE bytes[1] % 128 = 126 -> 2 [] bytes[1] % 128 = 127 -> 8 [] OTHER -> 0
      ext   == SubSeq(bytes, 2, width + 1)
  IN  [size |-> IF width = 0 THEN bytes[1] % 128
                ELSE FoldLeft(LAMBDA length, byte : length * 256 + byte, 0, ext),
       used |-> width + 1]

(* RFC 6455: the shortest form that holds the size, the mask bit set by a  *)
(* browser.                                                                *)
BrowserFrame(size) ==
  CASE size \in 0 .. 125     -> <<128 + size>>
    [] size \in 126 .. 65535 -> <<254, size \div 256, size % 256>>
    [] OTHER -> <<255, 0, 0, 0, 0, size \div 16777216,
                  (size \div 65536) % 256, (size \div 256) % 256, size % 256>>

=============================================================================
