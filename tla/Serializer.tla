----------------------------- MODULE Serializer -----------------------------
(***************************************************************************)
(* dumps() and loads() of gateway_base.py: an object is written as opcodes *)
(* for a stack machine, and the other interpreter runs them.  A stream is  *)
(* loaded whole, with another dump behind it, cut off, with one byte       *)
(* changed, or as a dump() that failed has left it.                        *)
(*                                                                         *)
(* A byte has five bits, the four bytes of an integer are one byte, and so *)
(* are the eight of a float: FOUR_BYTE_INT_MAX is 15.  Bytes 0..9 are the  *)
(* decimal digits, 10 is the minus sign, 11..31 are opcodes.  UTF-8 takes  *)
(* one byte below 16 and two for 16..31; 32 is a lone surrogate.           *)
(*                                                                         *)
(* An object is a tuple of its type and its contents; those of lists,      *)
(* tuples, sets and dicts are sequences in the order of iteration.  True   *)
(* and 1 are different keys here.                                          *)
(***************************************************************************)
EXTENDS Integers, Sequences, FiniteSets, SequencesExt

CONSTANTS Objects, \* what is dumped
          Configs  \* [p2, p3, internal]: the strconfig, and loads_internal() for loads()

VARIABLES obj, conf, file, written, damage, pos, stack, result

vars == <<obj, conf, file, written, damage, pos, stack, result>>

Byte == 0..31
IntMax == 15

opcode == [BUILDTUPLE |-> 11, BYTES |-> 12, CHANNEL |-> 13, FALSE |-> 14, FLOAT |-> 15,
  FROZENSET |-> 16, INT |-> 17, LONG |-> 18, LONGINT |-> 19, LONGLONG |-> 20,
  NEWDICT |-> 21, NEWLIST |-> 22, NONE |-> 23, PY2STRING |-> 24, PY3STRING |-> 25,
  SET |-> 26, SETITEM |-> 27, STOP |-> 28, TRUE |-> 29, UNICODE |-> 30, COMPLEX |-> 31]
Version == 2

-----------------------------------------------------------------------------
(* Text *)

Encode(s) ==
  FlattenSeq([i \in DOMAIN s |->
    IF s[i] < 16 THEN <<s[i]>> ELSE <<24 + (s[i] - 16) \div 8, 16 + (s[i] % 8)>>])

\* Strict: every lead byte (24, 25) is followed by its continuation (16..23), and no
\* continuation comes without one.
Decodable(b) ==
  \A i \in DOMAIN b :
    /\ b[i] < 26
    /\ b[i] \in {24, 25} <=> (i < Len(b) /\ b[i + 1] \in 16..23)

Decode(b) ==
  LET chars == SelectSeq([i \in DOMAIN b |-> i], LAMBDA i : b[i] \notin 16..23)
  IN  [n \in DOMAIN chars |->
         LET i == chars[n]
         IN  IF b[i] < 16 THEN b[i] ELSE 8 * (b[i] - 24) + b[i + 1]]

RECURSIVE Digits(_)
Digits(n) == IF n < 10 THEN <<n>> ELSE Append(Digits(n \div 10), n % 10)

IsNumber(b) ==
  LET d == IF b # <<>> /\ b[1] = 10 THEN Tail(b) ELSE b
  IN  d # <<>> /\ \A i \in DOMAIN d : d[i] < 10

Number(b) ==
  LET value(d) == FoldLeft(LAMBDA n, c : 10 * n + c, 0, d)
  IN  IF b[1] = 10 THEN -value(Tail(b)) ELSE value(b)

-----------------------------------------------------------------------------
(* _Serializer: what is written until it ends, and the exception it ends with *)

Put(bytes) == [bytes |-> bytes, err |-> ""]
Fail(err) == [bytes |-> <<>>, err |-> err]
Then(a, b) == IF a.err # "" THEN a ELSE [bytes |-> a.bytes \o b.bytes, err |-> b.err]
Chain(parts) == FoldLeft(Then, Put(<<>>), parts)

\* struct.pack() refuses what is too small.
Int4(i) ==
  CASE i > IntMax -> Fail("DumpError") [] i < -IntMax - 1 -> Fail("struct.error")
    [] OTHER -> Put(<<i % 32>>)

ByteSequence(op, b) == Chain(<<Put(<<op>>), Int4(Len(b)), Put(b)>>)

Integral(i) ==
  IF i <= IntMax THEN Then(Put(<<opcode.INT>>), Int4(i))
  ELSE ByteSequence(opcode.LONGINT, Digits(i))

RECURSIVE Save(_)

SaveAll(s) == Chain([i \in DOMAIN s |-> Save(s[i])])

SaveItems(pairs) ==
  Chain([i \in DOMAIN pairs |->
           Chain(<<Save(pairs[i][1]), Save(pairs[i][2]), Put(<<opcode.SETITEM>>)>>)])

SaveCollection(op, s) == Chain(<<SaveAll(s), Put(<<op>>), Int4(Len(s))>>)

Save(v) ==
  CASE v[1] = "none" -> Put(<<opcode.NONE>>)
    [] v[1] = "bool" -> Put(<<IF v[2] THEN opcode.TRUE ELSE opcode.FALSE>>)
    [] v[1] = "bytes" -> ByteSequence(opcode.BYTES, v[2])
    [] v[1] = "str" ->
         Then(Put(<<opcode.PY3STRING>>),
              IF 32 \in Range(v[2]) THEN Fail("DumpError")
              ELSE Then(Int4(Len(Encode(v[2]))), Put(Encode(v[2]))))
    [] v[1] = "int" -> Integral(v[2])
    [] v[1] = "float" -> Put(<<opcode.FLOAT, v[2]>>)
    [] v[1] = "complex" -> Put(<<opcode.COMPLEX, v[2], v[3]>>)
    [] v[1] = "list" ->
         Chain(<<Put(<<opcode.NEWLIST>>), Int4(Len(v[2])),
                 SaveItems([i \in DOMAIN v[2] |-> <<<<"int", i - 1>>, v[2][i]>>])>>)
    [] v[1] = "dict" -> Then(Put(<<opcode.NEWDICT>>), SaveItems(v[2]))
    [] v[1] = "tuple" -> SaveCollection(opcode.BUILDTUPLE, v[2])
    [] v[1] = "set" -> SaveCollection(opcode.SET, v[2])
    [] v[1] = "frozenset" -> SaveCollection(opcode.FROZENSET, v[2])
    [] v[1] = "channel" -> Then(Put(<<opcode.CHANNEL>>), Int4(v[2]))
    [] OTHER -> Fail("DumpError")

save(v, versioned) ==
  Chain(<<Put(IF versioned THEN <<Version>> ELSE <<>>), Save(v), Put(<<opcode.STOP>>)>>)

-----------------------------------------------------------------------------
(* What became of the stream on its way *)

Init ==
  /\ obj \in Objects /\ conf \in Configs
  /\ file = <<>> /\ written = 0 /\ damage = "unwritten"
  /\ pos = 0 /\ stack = <<>> /\ result = <<"start">>

\* A dump() that fails has written a part of its stream; dumps_internal() gives nothing away.
Dump ==
  LET d == save(obj, ~conf.internal)
      n == Len(d.bytes)
  IN  /\ damage = "unwritten" /\ written' = n
      /\ \/ d.err # "" /\ damage' = d.err /\ file' = IF conf.internal THEN <<>> ELSE d.bytes
         \/ /\ d.err = "" /\ damage' = "none"
            /\ \E more \in {<<>>, d.bytes} : file' = d.bytes \o more
         \/ d.err = "" /\ damage' = "cut" /\ \E k \in 0..n - 1 : file' = SubSeq(d.bytes, 1, k)
         \/ /\ d.err = "" /\ damage' = "changed"
            /\ \E k \in 1..n, b \in Byte : file' = [d.bytes EXCEPT ![k] = b]
      /\ result' = <<IF conf.internal THEN "running" ELSE "version">>
      /\ UNCHANGED <<obj, conf, pos, stack>>

-----------------------------------------------------------------------------
(* Unserializer *)

\* read(n): fewer bytes at the end of the stream, all that are left if n is negative.
After(n) == IF n < 0 \/ pos + n > Len(file) THEN Len(file) ELSE pos + n

Running == result = <<"running">> /\ UNCHANGED <<obj, conf, file, written, damage>>
At(ops) == Running /\ pos < Len(file) /\ file[pos + 1] \in ops
Raise(e) == result' = <<"raised", e>> /\ UNCHANGED <<pos, stack>>
Loaded(v) == stack' = Append(stack, v) /\ UNCHANGED result

ReadVersion ==
  /\ result = <<"version">> /\ UNCHANGED <<obj, conf, file, written, damage, stack>>
  /\ pos' = After(1)
  /\ result' = IF pos < Len(file) /\ file[pos + 1] = Version THEN <<"running">>
               ELSE <<"raised", "LoadError">>

\* Mutant: the end of the file is taken for the end of the object.
EndOfFileStops ==
  /\ Running /\ pos = Len(file)
  /\ IF Len(stack) = 1 THEN result' = <<"loaded", stack[1]>> /\ UNCHANGED <<pos, stack>>
     ELSE Raise("EOFError")

EndOfFile == Running /\ pos = Len(file) /\ Raise("EOFError")

UnknownOpcode == At(Byte \ Range(opcode)) /\ Raise("LoadError")

LoadConstant ==
  \E c \in {<<opcode.NONE, <<"none">>>>, <<opcode.TRUE, <<"bool", TRUE>>>>,
            <<opcode.FALSE, <<"bool", FALSE>>>>, <<opcode.NEWDICT, <<"dict", <<>>>>>>} :
    At({c[1]}) /\ pos' = pos + 1 /\ Loaded(c[2])

Operand(op) ==
  CASE op \in {opcode.NONE, opcode.TRUE, opcode.FALSE, opcode.NEWDICT, opcode.SETITEM,
              opcode.STOP} -> 0
    [] op = opcode.COMPLEX -> 2 [] OTHER -> 1

\* struct.unpack() of too few bytes.
ShortOperand ==
  At(Range(opcode)) /\ pos + 1 + Operand(file[pos + 1]) > Len(file) /\ Raise("struct.error")

WithOperand(ops) == At(ops) /\ pos + 1 + Operand(file[pos + 1]) <= Len(file)

\* Mutant: the integer is read without its sign.
Int4ReadUnsigned == file[pos + 2]

\* _read_int4()
Int4Read == LET b == file[pos + 2] IN IF b > IntMax THEN b - 32 ELSE b

LoadNumber ==
  /\ WithOperand({opcode.INT, opcode.LONG, opcode.FLOAT, opcode.COMPLEX})
  /\ pos' = pos + 1 + Operand(file[pos + 1])
  /\ Loaded(CASE file[pos + 1] = opcode.FLOAT -> <<"float", file[pos + 2]>>
              [] file[pos + 1] = opcode.COMPLEX -> <<"complex", file[pos + 2], file[pos + 3]>>
              [] OTHER -> <<"int", Int4Read>>)

\* _read_byte_string(): a stream that ends too early makes it short.
ByteString == SubSeq(file, pos + 3, After(IF Int4Read < 0 THEN -1 ELSE 2 + Int4Read))

Convert(op, b) ==
  CASE op \in {opcode.LONGINT, opcode.LONGLONG} -> <<"int", Number(b)>>
    [] op \in {opcode.BYTES} \cup IF conf.p3 THEN {opcode.PY3STRING} ELSE {}
              \cup IF conf.p2 THEN {} ELSE {opcode.PY2STRING} -> <<"bytes", b>>
    [] op = opcode.PY2STRING -> <<"str", b>>  \* latin-1
    [] OTHER -> <<"str", Decode(b)>>

Convertible(op, b) ==
  CASE op \in {opcode.LONGINT, opcode.LONGLONG} -> IsNumber(b)
    [] op = opcode.UNICODE \/ (op = opcode.PY3STRING /\ ~conf.p3) -> Decodable(b)
    [] OTHER -> TRUE

LoadByteString ==
  /\ WithOperand({opcode.LONGINT, opcode.LONGLONG, opcode.BYTES, opcode.PY2STRING,
                  opcode.PY3STRING, opcode.UNICODE})
  /\ IF Convertible(file[pos + 1], ByteString)
     THEN pos' = pos + 2 + Len(ByteString) /\ Loaded(Convert(file[pos + 1], ByteString))
     ELSE Raise("ValueError")

LoadNewlist ==
  /\ WithOperand({opcode.NEWLIST}) /\ pos' = pos + 2
  /\ Loaded(<<"list", [i \in 1..Int4Read |-> <<"none">>]>>)

RECURSIVE Hashable(_)
Hashable(v) ==
  /\ v[1] \notin {"list", "dict", "set"}
  /\ v[1] = "tuple" => \A i \in DOMAIN v[2] : Hashable(v[2][i])

\* Two objects are equal if they have the same form.
RECURSIVE Form(_)
Form(v) ==
  CASE v[1] \in {"set", "frozenset"} -> <<"set", {Form(v[2][i]) : i \in DOMAIN v[2]}>>
    [] v[1] = "dict" -> <<"dict", {<<Form(v[2][i][1]), Form(v[2][i][2])>> : i \in DOMAIN v[2]}>>
    [] v[1] \in {"list", "tuple"} -> <<v[1], [i \in DOMAIN v[2] |-> Form(v[2][i])]>>
    [] OTHER -> v

Assign(d, k, v) ==
  IF \E i \in DOMAIN d : Form(d[i][1]) = Form(k)
  THEN [i \in DOMAIN d |-> IF Form(d[i][1]) = Form(k) THEN <<d[i][1], v>> ELSE d[i]]
  ELSE Append(d, <<k, v>>)

Index(k) == CASE k[1] = "int" -> k[2] [] k = <<"bool", TRUE>> -> 1 [] OTHER -> 0

\* Negative indices count from the end.
LoadSetitem ==
  LET n == Len(stack) value == stack[n] key == stack[n - 1] into == stack[n - 2]
      Becomes(c) == /\ stack' = Append(SubSeq(stack, 1, n - 3), <<into[1], c>>)
                    /\ pos' = pos + 1 /\ UNCHANGED result
      size == Len(into[2])
  IN  /\ At({opcode.SETITEM})
      /\ CASE n < 3 -> Raise("LoadError")
           [] n >= 3 /\ into[1] = "dict" /\ Hashable(key) ->
                Becomes(Assign(into[2], key, value))
           [] n >= 3 /\ into[1] = "list" /\ key[1] \in {"int", "bool"} ->
                IF Index(key) \in -size..size - 1
                THEN Becomes([into[2] EXCEPT ![1 + (Index(key) % size)] = value])
                ELSE Raise("IndexError")
           [] OTHER -> Raise("TypeError")

Distinct(s) == FoldLeft(LAMBDA r, v : IF \E i \in DOMAIN r : Form(r[i]) = Form(v)
                                      THEN r ELSE Append(r, v), <<>>, s)

\* stack[-length:]: all of the stack if it holds fewer, all but the first if negative.
LoadCollection ==
  LET length == Int4Read
      keep == CASE length >= Len(stack) \/ length = 0 -> 0
                [] length < 0 -> IF -length > Len(stack) THEN Len(stack) ELSE -length
                [] OTHER -> Len(stack) - length
      items == IF length = 0 THEN <<>> ELSE SubSeq(stack, keep + 1, Len(stack))
      rest == IF length = 0 THEN stack ELSE SubSeq(stack, 1, keep)
      op == file[pos + 1]
      type == CASE op = opcode.BUILDTUPLE -> "tuple" [] op = opcode.SET -> "set"
                [] OTHER -> "frozenset"
  IN  /\ WithOperand({opcode.BUILDTUPLE, opcode.SET, opcode.FROZENSET})
      /\ IF type = "tuple" \/ \A i \in DOMAIN items : Hashable(items[i])
         THEN /\ LET contents == IF type = "tuple" THEN items ELSE Distinct(items)
                 IN  stack' = Append(rest, <<type, contents>>)
              /\ pos' = pos + 2 /\ UNCHANGED result
         ELSE Raise("TypeError")

\* loads() has no factory for channels.
LoadChannel ==
  /\ WithOperand({opcode.CHANNEL})
  /\ IF conf.internal THEN pos' = pos + 2 /\ Loaded(<<"channel", Int4Read>>)
     ELSE Raise("AssertionError")

LoadStop ==
  /\ At({opcode.STOP}) /\ pos' = pos + 1 /\ UNCHANGED stack
  /\ result' = IF Len(stack) = 1 THEN <<"loaded", stack[1]>> ELSE <<"raised", "LoadError">>

Next ==
  \/ Dump \/ ReadVersion \/ EndOfFile \/ UnknownOpcode \/ ShortOperand
  \/ LoadConstant \/ LoadNumber \/ LoadByteString \/ LoadNewlist
  \/ LoadSetitem \/ LoadCollection \/ LoadChannel \/ LoadStop

Spec == Init /\ [][Next]_vars

-----------------------------------------------------------------------------
(* Properties *)

RECURSIVE HasPart(_, _)
HasPart(v, type) ==
  \/ v[1] = type
  \/ /\ v[1] \in {"list", "tuple", "set", "frozenset"}
     /\ \E i \in DOMAIN v[2] : HasPart(v[2][i], type)
  \/ v[1] = "dict" /\ \E i \in DOMAIN v[2] : \E j \in {1, 2} : HasPart(v[2][i][j], type)

\* What the other side gets: with py3str_as_py2str every str becomes bytes, and of the keys
\* that become equal the last one wins.
RECURSIVE Expected(_)
Expected(v) ==
  CASE v[1] = "str" /\ conf.p3 -> <<"bytes", Encode(v[2])>>
    [] v[1] \in {"list", "tuple"} -> <<v[1], [i \in DOMAIN v[2] |-> Expected(v[2][i])]>>
    [] v[1] \in {"set", "frozenset"} -> <<"set", {Expected(v[2][i]) : i \in DOMAIN v[2]}>>
    [] v[1] = "dict" ->
         <<"dict", {<<Expected(v[2][i][1]), Expected(v[2][i][2])>> :
                      i \in {i \in DOMAIN v[2] : \A j \in i + 1..Len(v[2]) :
                               Expected(v[2][j][1]) # Expected(v[2][i][1])}}>>
    [] OTHER -> v

\* A stream that was not damaged loads to the object that was dumped, whatever was
\* written behind it, and load() leaves the file where the next dump begins.
RoundTrip ==
  /\ damage = "none" /\ result[1] \in {"loaded", "raised"}
  /\ HasPart(obj, "channel") => conf.internal
  => result[1] = "loaded" /\ Form(result[2]) = Expected(obj) /\ pos = written

\* No part of a stream loads: neither one that was cut off, although byte strings are read
\* short without an error, nor what a dump() that failed has left in its file.
NoPartialLoad == damage \in {"cut", "DumpError", "struct.error"} => result[1] # "loaded"
=============================================================================
