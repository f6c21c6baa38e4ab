----------------------------- MODULE LogProofs -----------------------------
(***************************************************************************)
(* Proofs about the log of a run.  The writer's half of LogInv relates the *)
(* file to what LimitWriter has counted; the reader's half says that what  *)
(* the client has, what is on the wire and what has not been read are      *)
(* stretches of the file, which a file that is only appended to keeps      *)
(* true.                                                                   *)
(***************************************************************************)
EXTENDS Logs, SequenceTheorems, TLAPS

Bits == 1 .. MaxOutput \cup {Note}

-----------------------------------------------------------------------------
(***************************************************************************)
(* Sequences.                                                              *)
(***************************************************************************)

\* A stretch of the output, one index at a time.
LEMMA BytesProperties ==
    ASSUME NEW m \in Nat, NEW n \in Nat, m <= n
    PROVE  /\ Len(Bytes(m, n)) = n - m
           /\ DOMAIN Bytes(m, n) = 1 .. n - m
           /\ \A i \in 1 .. n - m : Bytes(m, n)[i] = m + i
           /\ n <= MaxOutput => Bytes(m, n) \in Seq(Bits)
           /\ Bytes(m, n) \in Seq(Nat)
<1>1. n - m \in Nat
  OBVIOUS
<1>2. Bytes(m, n) \in Seq(Nat)
  <2>1. \A i \in 1 .. n - m : m + i \in Nat
    BY <1>1
  <2>. QED  BY <1>1, <2>1, IsASeq DEF Bytes
<1>3. ASSUME n <= MaxOutput
      PROVE  Bytes(m, n) \in Seq(Bits)
  <2>1. \A i \in 1 .. n - m : m + i \in Bits
    BY <1>1, <1>3, LogsAssumption DEF Bits
  <2>. QED  BY <1>1, <2>1, IsASeq DEF Bytes
<1>. QED  BY <1>1, <1>2, <1>3 DEF Bytes

\* The output up to some byte.
LEMMA BytesFromStart ==
    ASSUME NEW n \in Nat
    PROVE  /\ Bytes(0, n) \in Seq(Nat) /\ Len(Bytes(0, n)) = n
           /\ \A i \in 1 .. n : Bytes(0, n)[i] = i
<1>1. 0 \in Nat /\ 0 <= n /\ n - 0 = n /\ \A i \in 1 .. n : 0 + i = i
  OBVIOUS
<1>2. /\ Bytes(0, n) \in Seq(Nat) /\ Len(Bytes(0, n)) = n - 0
      /\ \A i \in 1 .. n - 0 : Bytes(0, n)[i] = 0 + i
  BY <1>1, BytesProperties
<1>. QED  BY <1>1, <1>2

\* The next bytes of the output go on where the file ends.
LEMMA BytesConcat ==
    ASSUME NEW m \in Nat, NEW n \in Nat, m <= n
    PROVE  Bytes(0, m) \o Bytes(m, n) = Bytes(0, n)
<1>. DEFINE s == Bytes(0, m) \o Bytes(m, n)
<1>1. /\ Bytes(0, m) \in Seq(Nat) /\ Len(Bytes(0, m)) = m
      /\ \A i \in 1 .. m : Bytes(0, m)[i] = i
  BY BytesFromStart
<1>2. /\ Bytes(m, n) \in Seq(Nat) /\ Len(Bytes(m, n)) = n - m
      /\ \A i \in 1 .. n - m : Bytes(m, n)[i] = m + i
  BY BytesProperties
<1>3. /\ Bytes(0, n) \in Seq(Nat) /\ Len(Bytes(0, n)) = n
      /\ \A i \in 1 .. n : Bytes(0, n)[i] = i
  BY BytesFromStart
<1>4. /\ s \in Seq(Nat) /\ Len(s) = m + (n - m)
      /\ \A i \in 1 .. m + (n - m) :
            s[i] = IF i <= m THEN Bytes(0, m)[i] ELSE Bytes(m, n)[i - m]
  BY <1>1, <1>2, ConcatProperties
<1>. HIDE DEF s
<1>5. Len(s) = n
  BY <1>4
<1>6. ASSUME NEW i \in 1 .. n
      PROVE  s[i] = i
  <2>1. CASE i <= m
    <3>1. i \in 1 .. m /\ i \in 1 .. m + (n - m)
      BY <2>1
    <3>. QED  BY <1>1, <1>4, <2>1, <3>1
  <2>2. CASE ~(i <= m)
    <3>1. i - m \in 1 .. n - m /\ i \in 1 .. m + (n - m) /\ m + (i - m) = i
      BY <2>2
    <3>. QED  BY <1>2, <1>4, <2>2, <3>1
  <2>. QED  BY <2>1, <2>2
<1>7. s = Bytes(0, n)
  BY <1>3, <1>4, <1>5, <1>6, SeqEqual
<1>. QED  BY <1>7 DEF s

\* A prefix, one index at a time.
LEMMA PrefixElements ==
    ASSUME NEW S, NEW s \in Seq(S), NEW t \in Seq(S)
    PROVE  IsPrefix(s, t) <=>
             Len(s) <= Len(t) /\ \A i \in 1 .. Len(s) : s[i] = t[i]
<1>1. Len(s) \in Nat /\ Len(t) \in Nat
  BY LenProperties
<1>2. SubSeq(s, 1, Len(s)) = s
  BY SubSeqFull
<1>3. ASSUME Len(s) <= Len(t)
      PROVE  /\ SubSeq(t, 1, Len(s)) \in Seq(S)
             /\ Len(SubSeq(t, 1, Len(s))) = Len(s)
             /\ \A i \in 1 .. Len(s) : SubSeq(t, 1, Len(s))[i] = t[i]
  <2>1. \A i \in 1 .. Len(s) : t[i] \in S
    BY <1>1, <1>3, ElementOfSeq
  <2>2. /\ SubSeq(t, 1, Len(s)) \in Seq(S)
        /\ Len(SubSeq(t, 1, Len(s))) = IF 1 <= Len(s) THEN Len(s) - 1 + 1 ELSE 0
        /\ \A i \in 1 .. Len(s) - 1 + 1 : SubSeq(t, 1, Len(s))[i] = t[1 + i - 1]
    BY <1>1, <2>1, SubSeqProperties
  <2>. QED  BY <1>1, <2>2
<1>4. ASSUME Len(s) <= Len(t), \A i \in 1 .. Len(s) : s[i] = t[i]
      PROVE  s = SubSeq(t, 1, Len(s))
  BY <1>1, <1>3, <1>4, SeqEqual
<1>. QED  BY <1>2, <1>3, <1>4 DEF IsPrefix

\* A file that is appended to keeps its prefixes, and itself is one.
LEMMA PrefixOfLonger ==
    ASSUME NEW S, NEW s \in Seq(S), NEW t \in Seq(S), NEW u \in Seq(S),
           IsPrefix(s, t)
    PROVE  IsPrefix(s, t \o u)
<1>1. Len(s) \in Nat /\ Len(t) \in Nat /\ Len(u) \in Nat
  BY LenProperties
<1>2. Len(s) <= Len(t) /\ \A i \in 1 .. Len(s) : s[i] = t[i]
  BY PrefixElements
<1>3. /\ t \o u \in Seq(S) /\ Len(t \o u) = Len(t) + Len(u)
      /\ \A i \in 1 .. Len(t) + Len(u) :
            (t \o u)[i] = IF i <= Len(t) THEN t[i] ELSE u[i - Len(t)]
  BY ConcatProperties
<1>4. Len(s) <= Len(t \o u) /\ \A i \in 1 .. Len(s) : s[i] = (t \o u)[i]
  BY <1>1, <1>2, <1>3
<1>. QED  BY <1>3, <1>4, PrefixElements

LEMMA PrefixReflexive ==
    ASSUME NEW S, NEW s \in Seq(S)
    PROVE  IsPrefix(s, s)
<1>1. Len(s) \in Nat
  BY LenProperties
<1>. QED  BY <1>1, PrefixElements

\* What has been read of a file is the same when the file has grown.
LEMMA ReadOfLonger ==
    ASSUME NEW S, NEW s \in Seq(S), NEW t \in Seq(S), NEW n \in 0 .. Len(s)
    PROVE  SubSeq(s \o t, 1, n) = SubSeq(s, 1, n)
<1>1. CASE n = 0
  BY <1>1, SubSeqEmpty
<1>2. CASE n # 0
  <2>1. Len(s) \in Nat /\ 1 \in 1 .. Len(s) /\ n \in 1 .. Len(s)
    BY <1>2, LenProperties
  <2>. QED  BY <2>1, SubSeqOfConcat1
<1>. QED  BY <1>1, <1>2

\* The first part of what has been read of a file is a prefix of the file.
LEMMA PartOfRead ==
    ASSUME NEW S, NEW s \in Seq(S), NEW t \in Seq(S), NEW u \in Seq(S),
           NEW n \in 0 .. Len(u), s \o t = SubSeq(u, 1, n)
    PROVE  IsPrefix(s, u)
<1>1. Len(s) \in Nat /\ Len(t) \in Nat /\ Len(u) \in Nat /\ n \in Nat
  BY LenProperties
<1>2. /\ Len(s \o t) = Len(s) + Len(t)
      /\ \A i \in 1 .. Len(s) + Len(t) :
            (s \o t)[i] = IF i <= Len(s) THEN s[i] ELSE t[i - Len(s)]
  BY ConcatProperties
<1>3. /\ Len(SubSeq(u, 1, n)) = IF 1 <= n THEN n - 1 + 1 ELSE 0
      /\ \A i \in 1 .. n - 1 + 1 : SubSeq(u, 1, n)[i] = u[1 + i - 1]
  <2>1. \A i \in 1 .. n : u[i] \in S
    BY <1>1, ElementOfSeq
  <2>. QED  BY <1>1, <2>1, SubSeqProperties
<1>4. Len(s) + Len(t) = n
  BY <1>1, <1>2, <1>3
<1>5. ASSUME NEW i \in 1 .. Len(s)
      PROVE  s[i] = u[i]
  <2>1. i \in 1 .. Len(s) + Len(t) /\ i \in 1 .. n - 1 + 1 /\ 1 + i - 1 = i
    BY <1>1, <1>4
  <2>2. (s \o t)[i] = s[i] /\ SubSeq(u, 1, n)[i] = u[i]
    BY <1>2, <1>3, <2>1
  <2>. QED  BY <2>2
<1>. QED  BY <1>1, <1>4, <1>5, PrefixElements

-----------------------------------------------------------------------------
(***************************************************************************)
(* The writer.                                                             *)
(***************************************************************************)

\* A write that the command gets to make finds everything before it in the
\* file, or the limit reached.
LEMMA WriteFrom ==
    ASSUME LogInv, NEW k \in 1 .. MaxWrite, Write(k), written < Limit
    PROVE  written = output /\ file = Bytes(0, output) /\ written \in Nat
<1>1. ~failed
  BY DEF Write, CopyingStopped
<1>2. Limit \in Nat /\ written \in Nat /\ written <= Limit
  BY LogsAssumption DEF LogInv, TypeOK
<1>. QED  BY <1>1, <1>2 DEF LogInv, AllWritten, Uncut

\* LimitWriter keeps its count, and what it does to the file is to append.
LEMMA WriterKept ==
    ASSUME LogInv, NEW k \in 1 .. MaxWrite, Write(k)
    PROVE  /\ Uncut' /\ CutOnce' /\ AllWritten'
           /\ written' \in 0 .. Limit + MaxWrite - 1
           /\ output' \in 0 .. MaxOutput /\ failed' \in BOOLEAN
           /\ \E s \in Seq(Bits) : file' = file \o s
<1>. USE LogsAssumption DEF LogInv
<1>1. /\ output \in 0 .. MaxOutput /\ output' = output + k
      /\ output' \in 0 .. MaxOutput
      /\ written \in 0 .. Limit + MaxWrite - 1
      /\ failed \in BOOLEAN /\ file \in Seq(Bits)
  BY DEF Write, TypeOK, Content, Bits
<1>2. CASE Discard(k)
  <2>1. UNCHANGED <<file, written, failed>> /\ written >= Limit
    BY <1>2 DEF Discard
  <2>2. file \o <<>> = file /\ <<>> \in Seq(Bits)
    <3>1. <<>> \in Seq(Bits)
      OBVIOUS
    <3>2. file \o <<>> = file
      BY <1>1, ConcatEmptySeq
    <3>. QED  BY <3>1, <3>2
  <2>3. \E s \in Seq(Bits) : file' = file \o s
    BY <2>1, <2>2, Zenon
  <2>4. Uncut' /\ CutOnce' /\ AllWritten'
    BY <1>1, <2>1 DEF Uncut, CutOnce, AllWritten
  <2>. QED  BY <1>1, <2>1, <2>3, <2>4
<1>3. CASE Cut(k)
  <2>1. PICK n \in 0 .. Limit - written, note \in {<<>>, <<Note>>} :
          /\ file' = file \o Bytes(output, output + n) \o note
          /\ failed' = (n < Limit - written \/ note = <<>>)
    BY <1>3 DEF Cut
  <2>2. /\ written < Limit /\ written + k > Limit /\ written' = written + k
        /\ written = output /\ file = Bytes(0, output)
    BY <1>3, WriteFrom DEF Cut
  <2>3. /\ n \in Nat /\ output \in Nat /\ output + n \in 0 .. Limit
        /\ output + n \in Nat /\ output + n <= MaxOutput /\ output <= output + n
        /\ (n < Limit - written <=> output + n # Limit)
    BY <1>1, <2>2
  <2>4. Bytes(output, output + n) \in Seq(Bits) /\ note \in Seq(Bits)
    <3>1. Bytes(output, output + n) \in Seq(Bits)
      BY <2>3, BytesProperties
    <3>2. Note \in Bits
      BY DEF Bits
    <3>3. <<>> \in Seq(Bits) /\ <<Note>> \in Seq(Bits)
      BY <3>2
    <3>. QED  BY <3>1, <3>3
  <2>5. file' = Bytes(0, output + n) \o note
    <3>1. Bytes(0, output) \o Bytes(output, output + n) = Bytes(0, output + n)
      BY <2>3, BytesConcat, Zenon
    <3>. QED  BY <2>1, <2>2, <3>1, Zenon
  <2>6. file' = file \o (Bytes(output, output + n) \o note)
    <3>1. (file \o Bytes(output, output + n)) \o note
            = file \o (Bytes(output, output + n) \o note)
      <4>. DEFINE b == Bytes(output, output + n)
      <4>1. file \in Seq(Bits) /\ b \in Seq(Bits) /\ note \in Seq(Bits)
        BY <1>1, <2>4
      <4>. HIDE DEF b
      <4>2. (file \o b) \o note = file \o (b \o note)
        BY <4>1, ConcatAssociative
      <4>. QED  BY <4>2 DEF b
    <3>. QED  BY <2>1, <3>1
  <2>7. Bytes(output, output + n) \o note \in Seq(Bits)
    BY <2>4, ConcatProperties
  <2>8. CutOnce'
    <3>1. ~failed' => output + n = Limit /\ note = <<Note>>
      BY <2>1, <2>3
    <3>. QED  BY <2>3, <2>5, <3>1 DEF CutOnce
  <2>9. /\ Uncut' /\ AllWritten' /\ failed' \in BOOLEAN
        /\ written' \in 0 .. Limit + MaxWrite - 1
    BY <1>1, <2>1, <2>2 DEF Uncut, AllWritten
  <2>. QED  BY <1>1, <2>6, <2>7, <2>8, <2>9
<1>4. CASE Through(k)
  <2>1. PICK n \in 0 .. k :
          /\ file' = file \o Bytes(output, output + n)
          /\ written' = written + n
          /\ failed' = (n < k)
    BY <1>4 DEF Through
  <2>2. /\ written < Limit /\ written + k <= Limit
        /\ written = output /\ file = Bytes(0, output)
    BY <1>1, <1>4, WriteFrom DEF Through
  <2>3. /\ n \in Nat /\ output \in Nat /\ output + n \in Nat
        /\ output + n \in Nat /\ output + n <= MaxOutput /\ output <= output + n
    BY <1>1, <2>2
  <2>4. Bytes(output, output + n) \in Seq(Bits)
    BY <2>3, BytesProperties
  <2>5. file' = Bytes(0, output + n)
    BY <2>1, <2>2, <2>3, BytesConcat
  <2>6. Uncut'
    BY <1>1, <2>1, <2>2, <2>5 DEF Uncut
  <2>7. written' <= Limit /\ written' \in 0 .. Limit + MaxWrite - 1
    BY <1>1, <2>1, <2>2, <2>3
  <2>8. ~failed' => n = k
    <3>1. ~failed' => ~(n < k)
      BY <2>1, Zenon
    <3>2. n \in Nat /\ n <= k /\ k \in Nat
      BY <2>1
    <3>. QED  BY <3>1, <3>2
  <2>9. CutOnce' /\ AllWritten' /\ failed' \in BOOLEAN
    BY <1>1, <2>1, <2>2, <2>7, <2>8 DEF CutOnce, AllWritten
  <2>. QED  BY <1>1, <2>1, <2>4, <2>6, <2>7, <2>9
<1>. QED  BY <1>2, <1>3, <1>4 DEF Write

-----------------------------------------------------------------------------
(***************************************************************************)
(* The reader and the proxy.                                               *)
(***************************************************************************)

\* A write of the command: the reader's half of the invariant is about
\* stretches of a file that has become longer.
LEMMA WriteKept ==
    ASSUME LogInv, NEW k \in 1 .. MaxWrite, Write(k)
    PROVE  LogInv' /\ IsPrefix(file, file')
<1>1. PICK s \in Seq(Bits) : file' = file \o s
  BY WriterKept
<1>2. UNCHANGED <<proc, entry, reader, at, owed, wire, client, stream>>
  BY DEF Write, runVars, readerVars, streamVars
<1>3. /\ file \in Seq(Bits) /\ wire \in Seq(Bits) /\ client \in Seq(Bits)
      /\ at \in 0 .. Len(file) /\ IsPrefix(client, file)
      /\ Len(file) \in Nat /\ Len(s) \in Nat
  BY LenProperties DEF LogInv, TypeOK, Content, Bits, StreamIsPrefix
<1>4. file' \in Seq(Bits) /\ Len(file') = Len(file) + Len(s)
  BY <1>1, <1>3, ConcatProperties
<1>5. IsPrefix(file, file')
  <2>1. IsPrefix(file, file)
    BY <1>3, PrefixReflexive
  <2>2. IsPrefix(file, file \o s)
    BY <1>3, <2>1, PrefixOfLonger
  <2>. QED  BY <1>1, <2>2
<1>6. StreamIsPrefix'
  <2>1. IsPrefix(client, file \o s)
    BY <1>3, PrefixOfLonger
  <2>2. SubSeq(file \o s, 1, at) = SubSeq(file, 1, at)
    BY <1>3, ReadOfLonger
  <2>. QED  BY <1>1, <1>2, <2>1, <2>2 DEF LogInv, StreamIsPrefix
<1>7. TypeOK'
  <2>1. {file', wire', client'} \subseteq Content
    BY <1>2, <1>3, <1>4 DEF Content, Bits
  <2>2. at' \in 0 .. Len(file')
    BY <1>2, <1>3, <1>4
  <2>3. UNCHANGED <<proc, entry, reader, owed, stream>>
    BY <1>2
  <2>. QED  BY <2>1, <2>2, <2>3, WriterKept DEF LogInv, TypeOK
<1>8. ReaderDone'
  <2>1. proc = "running"
    BY DEF Write
  <2>. QED  BY <1>2, <2>1 DEF LogInv, ReaderDone
<1>. QED  BY <1>5, <1>6, <1>7, <1>8, WriterKept DEF LogInv

\* A copy takes what is there and has not been read.
LEMMA CopyKept ==
    ASSUME LogInv, Copy
    PROVE  LogInv'
<1>. DEFINE rest == SubSeq(file, at + 1, Len(file))
<1>1. /\ wire' = wire \o rest /\ at' = Len(file)
      /\ reader \in DOMAIN AfterCopy /\ reader' = AfterCopy[reader]
      /\ UNCHANGED <<proc, entry, output, file, written, failed, owed, client,
                     stream>>
  BY DEF Copy, runVars, writerVars
<1>2. /\ file \in Seq(Bits) /\ wire \in Seq(Bits) /\ client \in Seq(Bits)
      /\ at \in 0 .. Len(file) /\ Len(file) \in Nat /\ at \in Nat
  BY LenProperties DEF LogInv, TypeOK, Content, Bits
<1>3. rest \in Seq(Bits)
  <2>1. \A i \in at + 1 .. Len(file) : file[i] \in Bits
    BY <1>2, ElementOfSeq
  <2>. QED  BY <1>2, <2>1, SubSeqProperties
<1>4. /\ reader \in {"once", "first", "tick", "last"}
      /\ reader' \in {"done", "tick", "check"}
  BY <1>1 DEF AfterCopy
<1>5. SubSeq(file, 1, at) \o rest = SubSeq(file, 1, Len(file))
  <2>1. /\ 1 \in 1 .. Len(file) + 1 /\ at \in 1 - 1 .. Len(file)
        /\ Len(file) \in at .. Len(file)
    BY <1>2
  <2>. QED  BY <1>2, <2>1, ConcatAdjacentSubSeq
<1>. HIDE DEF rest
<1>6. wire' \in Seq(Bits)
  BY <1>1, <1>2, <1>3, ConcatProperties
<1>7. StreamIsPrefix'
  <2>1. client \o (wire \o rest) = (client \o wire) \o rest
    <3>1. client \in Seq(Bits) /\ wire \in Seq(Bits)
      BY <1>2
    <3>. QED  BY <1>3, <3>1, ConcatAssociative, SMTT(20)
  <2>2. ASSUME stream \in {"open", "ended"}
        PROVE  client \o wire' = SubSeq(file, 1, Len(file))
    <3>1. client \o wire = SubSeq(file, 1, at)
      BY <2>2 DEF LogInv, StreamIsPrefix
    <3>. QED  BY <1>1, <1>5, <2>1, <3>1
  <2>. QED  BY <1>1, <2>2 DEF LogInv, StreamIsPrefix
<1>8. TypeOK'
  <2>1. {file', wire', client'} \subseteq Content
    BY <1>1, <1>2, <1>6 DEF Content, Bits
  <2>2. at' \in 0 .. Len(file')
    BY <1>1, <1>2
  <2>. QED  BY <1>1, <1>4, <2>1, <2>2 DEF LogInv, TypeOK, Following
<1>9. ReaderDone'
  BY <1>1, <1>4 DEF LogInv, ReaderDone
<1>. QED  BY <1>1, <1>7, <1>8, <1>9 DEF LogInv, Uncut, CutOnce, AllWritten

\* The proxy passes on the beginning of what is on the wire.
LEMMA PassOnKept ==
    ASSUME LogInv, NEW k \in 1 .. BufSize, PassOn(k)
    PROVE  /\ LogInv' /\ IsPrefix(client, client')
           /\ stream # "open" => client' = client
<1>. DEFINE now == SubSeq(wire, 1, k)
            later == SubSeq(wire, k + 1, Len(wire))
<1>1. /\ k \in 1 .. Len(wire) /\ wire' = later
      /\ client' = IF stream = "open" THEN client \o now ELSE client
      /\ UNCHANGED <<proc, entry, output, file, written, failed, reader, at, owed,
                     stream>>
  BY DEF PassOn, runVars, writerVars, readerVars
<1>2. /\ file \in Seq(Bits) /\ wire \in Seq(Bits) /\ client \in Seq(Bits)
      /\ at \in 0 .. Len(file) /\ Len(wire) \in Nat /\ k \in Nat
  BY LenProperties, LogsAssumption DEF LogInv, TypeOK, Content, Bits
<1>3. now \in Seq(Bits) /\ later \in Seq(Bits)
  <2>1. \A i \in 1 .. k : wire[i] \in Bits
    BY <1>1, <1>2, ElementOfSeq
  <2>2. \A i \in k + 1 .. Len(wire) : wire[i] \in Bits
    BY <1>1, <1>2, ElementOfSeq
  <2>. QED  BY <1>1, <1>2, <2>1, <2>2, SubSeqProperties
<1>4. now \o later = wire
  <2>1. /\ 1 \in 1 .. Len(wire) + 1 /\ k \in 1 - 1 .. Len(wire)
        /\ Len(wire) \in k .. Len(wire)
    BY <1>1, <1>2
  <2>2. now \o later = SubSeq(wire, 1, Len(wire))
    BY <1>2, <2>1, ConcatAdjacentSubSeq
  <2>. QED  BY <1>2, <2>2, SubSeqFull
<1>5. stream \notin {"cut", "ended"}
  <2>1. wire # <<>>
    BY <1>1, <1>2
  <2>. QED  BY <2>1 DEF LogInv, ReaderDone
<1>. HIDE DEF now, later
<1>6. ASSUME stream = "open"
      PROVE  StreamIsPrefix' /\ client' \in Seq(Bits) /\ IsPrefix(client, client')
  <2>1. client' = client \o now
    BY <1>1, <1>6
  <2>2. client' \in Seq(Bits)
    BY <1>2, <1>3, <2>1, ConcatProperties
  <2>3. client' \o wire' = SubSeq(file, 1, at)
    <3>1. (client \o now) \o later = client \o (now \o later)
      BY <1>2, <1>3, ConcatAssociative
    <3>2. client \o wire = SubSeq(file, 1, at)
      BY <1>6 DEF LogInv, StreamIsPrefix
    <3>. QED  BY <1>1, <1>4, <2>1, <3>1, <3>2
  <2>4. IsPrefix(client', file)
    <3>1. wire' \in Seq(Bits)
      BY <1>1, <1>3
    <3>. QED  BY <1>2, <2>2, <2>3, <3>1, PartOfRead
  <2>5. IsPrefix(client, client')
    <3>1. IsPrefix(client, client)
      BY <1>2, PrefixReflexive
    <3>. QED  BY <1>2, <1>3, <2>1, <3>1, PrefixOfLonger
  <2>6. StreamIsPrefix'
    <3>1. file' = file /\ at' = at
      BY <1>1
    <3>2. IsPrefix(client', file')
      BY <2>4, <3>1
    <3>3. client' \o wire' = SubSeq(file', 1, at')
      BY <2>3, <3>1
    <3>. QED  BY <3>2, <3>3 DEF StreamIsPrefix
  <2>. QED  BY <2>2, <2>5, <2>6
<1>7. ASSUME stream # "open"
      PROVE  StreamIsPrefix' /\ client' \in Seq(Bits) /\ IsPrefix(client, client')
  <2>1. client' = client
    BY <1>1, <1>7
  <2>2. IsPrefix(client, client)
    BY <1>2, PrefixReflexive
  <2>3. stream' \notin {"open", "ended"} /\ IsPrefix(client', file')
    BY <1>1, <1>5, <1>7, <2>1 DEF LogInv, StreamIsPrefix
  <2>4. StreamIsPrefix'
    BY <2>3, Zenon DEF StreamIsPrefix
  <2>5. client' \in Seq(Bits) /\ IsPrefix(client, client')
    <3>1. client' \in Seq(Bits)
      BY <1>2, <2>1
    <3>. QED  BY <2>1, <2>2, <3>1
  <2>. QED  BY <2>4, <2>5
<1>8. StreamIsPrefix' /\ client' \in Seq(Bits) /\ IsPrefix(client, client')
  BY <1>6, <1>7
<1>9. TypeOK'
  <2>1. {file', wire', client'} \subseteq Content
    BY <1>1, <1>2, <1>3, <1>8 DEF Content, Bits
  <2>. QED  BY <1>1, <2>1 DEF LogInv, TypeOK
<1>10. ReaderDone'
  BY <1>1, <1>5 DEF LogInv, ReaderDone
<1>. QED  BY <1>1, <1>8, <1>9, <1>10 DEF LogInv, Uncut, CutOnce, AllWritten

-----------------------------------------------------------------------------
(***************************************************************************)
(* The invariant and what follows from it.                                 *)
(***************************************************************************)

\* A new run: nothing has been written, sent or read.
LEMMA LogInit ==
    ASSUME Init
    PROVE  LogInv
<1>1. <<>> \in Seq(Bits) /\ <<>> \in Seq(Nat) /\ Len(<<>>) = 0
  BY EmptySeq
<1>2. Bytes(0, 0) = <<>>
  <2>1. Bytes(0, 0) \in Seq(Nat) /\ Len(Bytes(0, 0)) = 0
    BY BytesFromStart
  <2>. QED  BY <2>1, <1>1, EmptySeq
<1>3. TypeOK
  <2>1. {file, wire, client} \subseteq Content
    BY <1>1 DEF Init, Content, Bits
  <2>2. 0 \in 0 .. Limit + MaxWrite - 1 /\ 0 \in 0 .. MaxOutput
    BY LogsAssumption
  <2>3. at \in 0 .. Len(file)
    BY <1>1 DEF Init
  <2>. QED  BY <2>1, <2>2, <2>3 DEF Init, TypeOK
<1>4. Uncut /\ AllWritten /\ CutOnce
  BY <1>2, LogsAssumption DEF Init, Uncut, AllWritten, CutOnce
<1>5. StreamIsPrefix
  <2>1. IsPrefix(<<>>, <<>>)
    BY <1>1, PrefixReflexive
  <2>2. <<>> \o <<>> = <<>>
    BY <1>1, ConcatEmptySeq
  <2>3. SubSeq(<<>>, 1, 0) = <<>>
    BY SubSeqEmpty
  <2>. QED  BY <2>1, <2>2, <2>3 DEF Init, StreamIsPrefix
<1>. QED  BY <1>3, <1>4, <1>5 DEF Init, LogInv, ReaderDone

\* The steps that leave the file and the streams alone.
LEMMA ControlKept ==
    ASSUME LogInv, UNCHANGED <<writerVars, at, wire, client>>,
           TypeOK', ReaderDone',
           stream' \in {"open", "ended"} => stream = "open"
    PROVE  LogInv'
<1>1. UNCHANGED <<output, file, written, failed, at, wire, client>>
  BY DEF writerVars
<1>2. StreamIsPrefix'
  BY <1>1 DEF LogInv, StreamIsPrefix
<1>. QED  BY <1>1, <1>2 DEF LogInv, Uncut, CutOnce, AllWritten

\* A broken connection loses what is on the wire, and then the stream's end
\* promises nothing about it.
LEMMA BreakKept ==
    ASSUME LogInv, ConnectionBreaks
    PROVE  LogInv'
<1>1. /\ UNCHANGED <<proc, entry, output, file, written, failed, at, owed, client>>
      /\ reader # "idle" /\ stream' = "cut" /\ reader' = "done" /\ wire' = <<>>
  BY DEF ConnectionBreaks, runVars, writerVars
<1>2. StreamIsPrefix'
  BY <1>1 DEF LogInv, StreamIsPrefix
<1>3. TypeOK'
  <2>1. wire' \in Content /\ client' \in Content /\ file' \in Content
    BY <1>1, EmptySeq DEF LogInv, TypeOK, Content
  <2>. QED  BY <1>1, <2>1 DEF LogInv, TypeOK
<1>4. ReaderDone'
  BY <1>1 DEF LogInv, ReaderDone
<1>. QED  BY <1>1, <1>2, <1>3, <1>4 DEF LogInv, Uncut, CutOnce, AllWritten

\* Every step keeps the invariant.
LEMMA LogStep ==
    ASSUME LogInv, [Next]_vars
    PROVE  LogInv'
<1>. USE DEF runVars, writerVars, readerVars, streamVars
<1>1. CASE Start \/ Register \/ Exit \/ Unregister
  <2>1. UNCHANGED <<writerVars, reader, at, streamVars>>
    BY <1>1 DEF Start, Register, Exit, Unregister
  <2>2. TypeOK'
    <3>1. owed' \in BOOLEAN
      <4>1. (reader \in Following) \in BOOLEAN
        OBVIOUS
      <4>2. owed' = owed \/ owed' = (reader \in Following)
        BY <1>1 DEF Start, Register, Exit, Unregister
      <4>3. owed \in BOOLEAN
        BY DEF LogInv, TypeOK
      <4>. QED
        BY <4>1, <4>2, <4>3, Zenon
    <3>2. /\ proc' \in {"new", "running", "over"}
          /\ entry' \in {"none", "listed", "deleted"}
      BY <1>1 DEF Start, Register, Exit, Unregister, LogInv, TypeOK
    <3>. QED
      BY <2>1, <3>1, <3>2 DEF LogInv, TypeOK
  <2>3. ReaderDone'
    BY <1>1 DEF Start, Register, Exit, Unregister, LogInv, ReaderDone
  <2>4. UNCHANGED <<writerVars, at, wire, client, stream>>
    BY <2>1
  <2>. QED  BY <2>2, <2>3, <2>4 DEF LogInv, StreamIsPrefix, Uncut, CutOnce, AllWritten
<1>2. CASE \E k \in 1 .. MaxWrite : Write(k)
  BY <1>2, WriteKept
<1>3. CASE HandleLogs \/ CheckActive
  <2>1. UNCHANGED <<proc, entry, writerVars, at, streamVars>>
    BY <1>3 DEF HandleLogs, CheckActive
  <2>2. TypeOK'
    BY <1>3 DEF HandleLogs, CheckActive, LogInv, TypeOK, Following
  <2>3. ReaderDone'
    BY <1>3 DEF HandleLogs, CheckActive, LogInv, ReaderDone
  <2>. QED  BY <2>1, <2>2, <2>3 DEF LogInv, StreamIsPrefix, Uncut, CutOnce, AllWritten
<1>4. CASE Copy
  BY <1>4, CopyKept
<1>5. CASE EndStream \/ ClientLeaves
  <2>1. UNCHANGED <<runVars, writerVars, readerVars, wire, client>>
    BY <1>5 DEF EndStream, ClientLeaves
  <2>2. TypeOK'
    BY <1>5 DEF EndStream, ClientLeaves, LogInv, TypeOK
  <2>3. ReaderDone'
    BY <1>5 DEF EndStream, ClientLeaves, LogInv, ReaderDone
  <2>4. stream = "open"
    BY <1>5 DEF EndStream, ClientLeaves
  <2>. QED  BY <2>1, <2>2, <2>3, <2>4, ControlKept
<1>6. CASE \E k \in 1 .. BufSize : PassOn(k)
  BY <1>6, PassOnKept
<1>7. CASE ConnectionBreaks
  BY <1>7, BreakKept
<1>8. CASE UNCHANGED vars
  BY <1>8 DEF vars, LogInv, TypeOK, Uncut, CutOnce, AllWritten, ReaderDone, StreamIsPrefix
<1>. QED  BY <1>1, <1>2, <1>3, <1>4, <1>5, <1>6, <1>7, <1>8
          DEF Next, Run, Agent, Proxy, Environment

\* The invariant behind the properties below holds for every limit, buffer,
\* size of write and length of output.
THEOREM LogsCorrect == Spec => []LogInv
<1>. QED  BY LogInit, LogStep, PTL DEF Spec

\* Types: in particular what LimitWriter counts stays below the limit plus
\* one write, and the reader's offset within the file.
THEOREM LogTypeOK == Spec => []TypeOK
<1>1. LogInv => TypeOK
  BY DEF LogInv
<1>. QED  BY <1>1, LogsCorrect, PTL

\* The file is the beginning of the output, cut at the limit with one note.
THEOREM CutAsPromised == Spec => []LogIsCut
<1>1. LogInv => LogIsCut
  <2>. SUFFICES ASSUME LogInv PROVE LogIsCut
    OBVIOUS
  <2>1. Limit \in Nat /\ written \in Nat
    BY LogsAssumption DEF LogInv, TypeOK
  <2>2. CASE written <= Limit
    <3>1. written \in 0 .. Limit /\ file = Bytes(0, written)
      BY <2>1, <2>2 DEF LogInv, Uncut
    <3>2. ~failed /\ written < Limit => written = output
      BY DEF LogInv, AllWritten
    <3>. QED  BY <2>2, <3>1, <3>2 DEF LogIsCut
  <2>3. CASE ~(written <= Limit)
    <3>1. written > Limit /\ ~(written < Limit)
      BY <2>1, <2>3
    <3>2. PICK n \in 0 .. Limit, note \in {<<>>, <<Note>>} :
            /\ file = Bytes(0, n) \o note
            /\ ~failed => n = Limit /\ note = <<Note>>
      BY <3>1 DEF LogInv, CutOnce
    <3>3. Bytes(0, n) \o <<>> = Bytes(0, n)
      <4>1. Bytes(0, n) \in Seq(Nat)
        BY <2>1, <3>2, BytesFromStart
      <4>. QED  BY <4>1, ConcatEmptySeq
    <3>4. file \in {Bytes(0, n), Bytes(0, n) \o <<Note>>}
      BY <3>2, <3>3
    <3>5. ~failed => file = Bytes(0, Limit) \o <<Note>>
      BY <3>2
    <3>. QED  BY <2>3, <3>1, <3>2, <3>4, <3>5 DEF LogIsCut
  <2>. QED  BY <2>2, <2>3
<1>. QED  BY <1>1, LogsCorrect, PTL

\* What the client has is the beginning of the file; unless it left or the
\* connection broke, nothing that was read from the file is missing.
THEOREM ClientSeesPrefix == Spec => []StreamIsPrefix
<1>1. LogInv => StreamIsPrefix
  BY DEF LogInv
<1>. QED  BY <1>1, LogsCorrect, PTL

-----------------------------------------------------------------------------
(***************************************************************************)
(* Followers.                                                              *)
(***************************************************************************)

\* A reader that finds a job gone that was in the map reads a closed file.
LEMMA FollowKept ==
    ASSUME LogInv, FollowInv, [Next]_vars
    PROVE  FollowInv'
<1>. USE DEF FollowInv, Following, runVars, writerVars, readerVars, streamVars
<1>1. CASE Start \/ Exit \/ Unregister
  BY <1>1 DEF Start, Exit, Unregister, LogInv, TypeOK, ReaderDone
<1>2. CASE Register
  BY <1>2 DEF Register, LogInv, TypeOK
<1>3. ASSUME NEW k \in 1 .. MaxWrite, Write(k)
      PROVE  FollowInv'
  BY <1>3 DEF Write
<1>4. CASE HandleLogs
  BY <1>4 DEF HandleLogs
<1>5. CASE Copy
  <2>1. /\ at' = Len(file) /\ reader' = AfterCopy[reader]
        /\ UNCHANGED <<owed, proc, entry, file, stream>>
    BY <1>5 DEF Copy
  <2>2. \/ reader = "last" /\ reader' = "done"
        \/ reader = "once" /\ reader' = "done"
        \/ reader = "first" /\ reader' = "tick"
        \/ reader = "tick" /\ reader' = "check"
    BY <1>5, <2>1 DEF Copy, AfterCopy
  <2>. QED
    BY <2>1, <2>2
<1>6. CASE CheckActive
  BY <1>6 DEF CheckActive, LogInv, TypeOK
<1>7. ASSUME NEW k \in 1 .. BufSize, PassOn(k)
      PROVE  FollowInv'
  BY <1>7 DEF PassOn
<1>8. CASE EndStream \/ ClientLeaves
  BY <1>8 DEF EndStream, ClientLeaves
<1>9. CASE ConnectionBreaks
  BY <1>9 DEF ConnectionBreaks
<1>10. CASE UNCHANGED vars
  BY <1>10 DEF vars
<1>. QED
  BY <1>1, <1>2, <1>3, <1>4, <1>5, <1>6, <1>7, <1>8, <1>9, <1>10
     DEF Next, Run, Agent, Proxy, Environment

\* The end of a stream that nothing broke is the end of the log, for those who
\* followed it while the job was registered.
THEOREM FollowerIsServed == Spec => []EndIsWhole
<1>1. Init => FollowInv
  BY DEF Init, FollowInv
<1>2. LogInv /\ FollowInv => EndIsWhole
  <2>. SUFFICES ASSUME LogInv, FollowInv, owed, stream = "ended"
                PROVE  client = file
    BY DEF EndIsWhole
  <2>1. reader = "done" /\ wire = <<>>
    BY DEF LogInv, ReaderDone
  <2>2. at = Len(file)
    BY <2>1 DEF FollowInv
  <2>3. client \in Seq(Bits) /\ file \in Seq(Bits)
    BY DEF LogInv, TypeOK, Content, Bits
  <2>4. client \o <<>> = SubSeq(file, 1, Len(file))
    BY <2>1, <2>2 DEF LogInv, StreamIsPrefix
  <2>5. client \o <<>> = client /\ SubSeq(file, 1, Len(file)) = file
    BY <2>3, ConcatEmptySeq, SubSeqFull
  <2>. QED
    BY <2>4, <2>5
<1>. QED
  BY <1>1, <1>2, FollowKept, LogsCorrect, PTL DEF Spec

-----------------------------------------------------------------------------
(***************************************************************************)
(* The refinement.                                                         *)
(***************************************************************************)

\* Every step is a step of LogStream or leaves its variables alone.
LEMMA LogRefinementStep ==
    ASSUME LogInv, Next
    PROVE  [Promised!Next]_(Promised!vars)
<1>. USE DEF runVars, writerVars, readerVars, streamVars
<1>1. CASE Start \/ Register \/ Unregister \/ HandleLogs \/ Copy \/ CheckActive
  <2>1. UNCHANGED <<file, client, stream>> /\ (proc' = "over" <=> proc = "over")
    BY <1>1 DEF Start, Register, Unregister, HandleLogs, Copy, CheckActive
  <2>. QED  BY <2>1 DEF Promised!vars
<1>2. CASE Exit
  <2>1. proc # "over" /\ proc' = "over" /\ UNCHANGED <<file, client, stream>>
    BY <1>2 DEF Exit
  <2>2. Promised!Close
    BY <2>1 DEF Promised!Close
  <2>. QED  BY <2>2 DEF Promised!Next
<1>3. CASE \E k \in 1 .. MaxWrite : Write(k)
  <2>1. PICK k \in 1 .. MaxWrite : Write(k)
    BY <1>3
  <2>2. IsPrefix(file, file')
    BY <2>1, WriteKept
  <2>3. proc = "running" /\ UNCHANGED <<proc, client, stream>>
    BY <2>1 DEF Write
  <2>4. Promised!Grow
    BY <2>2, <2>3 DEF Promised!Grow, IsPrefix, Promised!IsPrefix
  <2>. QED  BY <2>4 DEF Promised!Next
<1>4. CASE \E k \in 1 .. BufSize : PassOn(k)
  <2>1. PICK k \in 1 .. BufSize : PassOn(k)
    BY <1>4
  <2>2. /\ LogInv' /\ IsPrefix(client, client')
        /\ stream # "open" => client' = client
    BY <2>1, PassOnKept
  <2>3. UNCHANGED <<file, proc, stream>>
    BY <2>1 DEF PassOn
  <2>4. IsPrefix(client', file)
    BY <2>2, <2>3 DEF LogInv, StreamIsPrefix
  <2>5. CASE stream = "open"
    <3>1. Promised!Send
      BY <2>2, <2>3, <2>4, <2>5 DEF Promised!Send, IsPrefix, Promised!IsPrefix
    <3>. QED  BY <3>1 DEF Promised!Next
  <2>6. CASE stream # "open"
    BY <2>2, <2>3, <2>6 DEF Promised!vars
  <2>. QED  BY <2>5, <2>6
<1>5. CASE EndStream \/ ClientLeaves \/ ConnectionBreaks
  <2>1. /\ UNCHANGED <<file, proc, client>>
        /\ stream = "open" /\ stream' # "open"
    BY <1>5 DEF EndStream, ClientLeaves, ConnectionBreaks
  <2>2. Promised!End
    BY <2>1 DEF Promised!End
  <2>. QED  BY <2>2 DEF Promised!Next
<1>. QED  BY <1>1, <1>2, <1>3, <1>4, <1>5
          DEF Next, Run, Agent, Proxy, Environment

\* A log that only grows, is closed when the process ends, and is sent to the
\* client from its beginning, in order, without a repetition: what the writer,
\* the follower and the proxy do together is that and no more.
THEOREM StreamRefinement == Spec => StreamSpec
<1>1. Init => Promised!Init
  BY DEF Init, Promised!Init
<1>2. LogInv /\ [Next]_vars => [Promised!Next]_(Promised!vars)
  <2>. SUFFICES ASSUME LogInv, [Next]_vars
                PROVE  [Promised!Next]_(Promised!vars)
    OBVIOUS
  <2>1. CASE Next
    BY <2>1, LogRefinementStep
  <2>2. CASE UNCHANGED vars
    BY <2>2 DEF vars, runVars, writerVars, streamVars, Promised!vars
  <2>. QED  BY <2>1, <2>2
<1>. QED  BY <1>1, <1>2, LogsCorrect, PTL DEF Spec, StreamSpec, Promised!Spec
=============================================================================
