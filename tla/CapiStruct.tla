----------------------------- MODULE CapiStruct -----------------------------
(***************************************************************************)
(* CCStruct (src/capi/CCStruct.cpp): how the structures of CAPI messages   *)
(* get their sizes, become bytes and are read again.  A structure has a    *)
(* format and, per field of it, a value: bytes, a string, or a structure   *)
(* (none for a null pointer); a raw one has bytes only.  m_Len is kept from*)
(* call to call.  Only TLC uses this module.                               *)
(***************************************************************************)
EXTENDS Integers, SequencesExt

CONSTANT MaxByte    \* longest structure with its length in one byte, 254

ASSUME CapiStructAssumption == MaxByte \in 1 .. 254

Long == MaxByte + 1

(* The format codes, n is the number of their bytes in a message.  The     *)
(* enumerations (INFO, REJECT, CIPVAL, B1PROT ...) are Word, an unused     *)
(* field of the class (cxf_I_..) is Ignore.                                *)
Bytes(n) == [kind |-> "bytes", n |-> n]
Word == Bytes(2)
Zero(n) == [kind |-> "zero", n |-> n]
Ignore == [kind |-> "ignore", n |-> 0]
Struct == [kind |-> "struct", n |-> 1]
ZStruct == [kind |-> "zstruct", n |-> 1]
String == [kind |-> "string", n |-> 0]

(* The values of the fields.                                               *)
Null == <<>>
To(s) == <<s>>
Zeros(n) == [i \in 1 .. n |-> 0]

(* CCStruct: raw with its data, a structure or, without a length, a message*)
Raw(bytes) ==
  [nolen |-> FALSE, raw |-> TRUE, fmt |-> <<>>, len |-> Len(bytes), data |-> bytes]
Of(fmt, data) ==
  [nolen |-> FALSE, raw |-> FALSE, fmt |-> fmt, len |-> 0, data |-> data]
Message(fmt, data) == [Of(fmt, data) EXCEPT !.nolen = TRUE]

Fields(s) == DOMAIN s.fmt
IsStruct(s, i) == s.fmt[i].kind = "struct" /\ s.data[i] # Null

-----------------------------------------------------------------------------
Head16(n) == <<n % 256, n \div 256>>

LenBytes(len) == IF len > MaxByte THEN <<Long>> \o Head16(len) ELSE <<len>>

(* What CalcStructSize returns.                                            *)
Size(s) == s.len + IF s.nolen THEN 0 ELSE Len(LenBytes(s.len))

(* Bug: a null pointer takes no room.                                      *)
FieldSizeNoNull(f, d) ==
  CASE f.kind = "struct" -> IF d = Null THEN 0 ELSE Size(d[1])
    [] f.kind = "string" -> Len(d)
    [] OTHER -> f.n

FieldSize(f, d) ==
  CASE f.kind = "struct" -> IF d = Null THEN 1 ELSE Size(d[1])
    [] f.kind = "string" -> Len(d)
    [] OTHER -> f.n

(* CalcStructSize: a size other than 0 is kept, with those below it.       *)
RECURSIVE Sized(_)
Sized(s) ==
  IF s.raw \/ s.len # 0 THEN s
  ELSE LET below == [i \in DOMAIN s.data |->
                      IF i \in Fields(s) /\ IsStruct(s, i)
                      THEN To(Sized(s.data[i][1])) ELSE s.data[i]]
       IN  [s EXCEPT
             !.data = below,
             !.len = FoldFunction(+, 0, [i \in Fields(s) |-> FieldSize(s.fmt[i], below[i])])]

(* FillBuffer and FillData.                                                *)
RECURSIVE FillData(_)
FillBuffer(s) == (IF s.nolen THEN <<>> ELSE LenBytes(s.len)) \o FillData(s)

FillField(f, d) ==
  CASE f.kind = "struct" -> IF d = Null THEN <<0>> ELSE FillBuffer(d[1])
    [] f.kind \in {"zero", "zstruct"} -> Zeros(f.n)
    [] f.kind = "ignore" -> <<>>
    [] OTHER -> d

FillData(s) ==
  IF s.raw THEN SubSeq(s.data, 1, s.len)
  ELSE FlattenSeq([i \in Fields(s) |-> FillField(s.fmt[i], s.data[i])])

RECURSIVE Reset(_)
Reset(s) ==
  IF s.raw THEN [s EXCEPT !.len = 0]
  ELSE [s EXCEPT
         !.len = 0,
         !.data = [i \in DOMAIN @ |->
           IF i \notin Fields(s) THEN @[i]
           ELSE CASE IsStruct(s, i) -> To(Reset(@[i][1]))
                  [] s.fmt[i].kind = "bytes" -> Zeros(s.fmt[i].n)
                  [] s.fmt[i].kind = "string" -> <<>>
                  [] OTHER -> @[i]]]

-----------------------------------------------------------------------------
(* ParseBuffer and ParseData.  rest begins where *ppBuffer points, left is *)
(* what *pLen counts; structures that are read have no null pointers.      *)

After(buf, n) == SubSeq(buf, n + 1, Len(buf))

(* The length in front of a structure: its value and its bytes, 0 if it is *)
(* not all there.                                                          *)
HeadOf(buf, left) ==
  CASE left = 0 -> [len |-> 0, n |-> 0]
    [] left > 0 /\ buf[1] <= MaxByte -> [len |-> buf[1], n |-> 1]
    [] left > 2 /\ buf[1] > MaxByte -> [len |-> buf[2] + 256 * buf[3], n |-> 3]
    [] OTHER -> [len |-> 0, n |-> 0]

Fits(h, left) == h.n > 0 /\ h.len <= left - h.n

Error(s, buf, left) == [s |-> s, rest |-> buf, left |-> left, ok |-> FALSE]

RECURSIVE ParseData(_, _, _)
ParseBuffer(s, buf, left) ==
  LET h == IF s.nolen THEN [len |-> left, n |-> 0] ELSE HeadOf(buf, left)
      r == ParseData(s, After(buf, h.n), h.len)
  IN  IF left = 0 \/ ~(s.nolen \/ Fits(h, left)) \/ s.len > h.len
      THEN Error(s, buf, left)
      ELSE IF h.len = 0
      THEN [s |-> Reset(s), rest |-> After(buf, h.n), left |-> left - h.n, ok |-> TRUE]
      ELSE [r EXCEPT !.left = left - h.n - h.len]

(* What a field of a message makes of the bytes: passed over, zeros without*)
(* counting them, read, or in an error.                                    *)
Parsed(d, buf, left) == [s |-> d, rest |-> buf, left |-> left, ok |-> TRUE]

(* Bug: the bytes of a structure that is passed over stay in the length.   *)
PassStructKeepsLen(d, buf, left) ==
  LET h == HeadOf(buf, left)
  IN  IF Fits(h, left) THEN Parsed(d, After(buf, h.n), left - h.n) ELSE Error(d, buf, left)

PassStruct(d, buf, left) ==
  LET h == HeadOf(buf, left)
  IN  IF Fits(h, left)
      THEN Parsed(d, After(buf, h.n + h.len), left - h.n - h.len)
      ELSE Error(d, buf, left)

PassZeros(f, d, buf, left) ==
  IF left < f.n THEN Error(d, buf, left) ELSE Parsed(d, After(buf, f.n), left)

ReadBytes(f, d, buf, left) ==
  IF left < f.n THEN Error(d, buf, left)
  ELSE Parsed(SubSeq(buf, 1, f.n), After(buf, f.n), left - f.n)

ParseField(f, d, buf, left) ==
  CASE f.kind = "struct" -> LET r == ParseBuffer(d[1], buf, left) IN [r EXCEPT !.s = To(@)]
    [] f.kind = "zstruct" -> PassStruct(d, buf, left)
    [] f.kind = "zero" -> PassZeros(f, d, buf, left)
    [] f.kind = "bytes" -> ReadBytes(f, d, buf, left)
    [] f.kind = "ignore" -> Parsed(d, buf, left)

(* What is left over is skipped, but not in a message.                     *)
Skips(end, nolen) ==
  [end EXCEPT !.s.len = @ - end.left,
              !.rest = IF nolen THEN @ ELSE After(@, end.left)]

(* Stops at the first field that is not there.                             *)
ParseData(s, buf, len) ==
  LET begin == Parsed([s EXCEPT !.len = len], buf, len)
      Next(r, i) ==
        IF ~r.ok THEN r
        ELSE LET f == ParseField(s.fmt[i], s.data[i], r.rest, r.left)
             IN  [f EXCEPT !.s = [r.s EXCEPT !.data[i] = f.s]]
      end == FoldLeftDomain(Next, begin, s.fmt)
  IN  IF s.raw
      THEN Parsed([s EXCEPT !.data = SubSeq(buf, 1, len), !.len = IF @ = 0 THEN len ELSE @],
                  After(buf, len), 0)
      ELSE IF end.ok THEN Skips(end, s.nolen) ELSE end

(* ParseStruct: into raw data the bytes of any structure, into another one *)
(* those of raw data.                                                      *)
ParseStruct(s, p) ==
  IF s.raw
  THEN LET q == Sized(p)
       IN  [s |-> [s EXCEPT !.len = q.len, !.data = FillData(q)], ok |-> TRUE]
  ELSE IF p.len = 0 THEN [s |-> s, ok |-> TRUE]
  ELSE IF s.len > p.len THEN [s |-> s, ok |-> FALSE]
  ELSE LET r == ParseData(s, p.data, p.len) IN [s |-> r.s, ok |-> r.ok]

-----------------------------------------------------------------------------
(* What a structure is on the wire, without what CCStruct remembers.       *)
RECURSIVE Wire(_)
Body(s) ==
  IF s.raw THEN SubSeq(s.data, 1, s.len)
  ELSE FlattenSeq([i \in Fields(s) |->
         IF IsStruct(s, i) THEN Wire(s.data[i][1]) ELSE FillField(s.fmt[i], s.data[i])])
Wire(s) == (IF s.nolen THEN <<>> ELSE LenBytes(Len(Body(s)))) \o Body(s)

(* Another way to say it: the length in three bytes, however small it is.  *)
WideWire(s) == <<Long>> \o Head16(Len(Body(s))) \o Body(s)
=============================================================================
