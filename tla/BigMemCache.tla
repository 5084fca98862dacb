------------------------------ MODULE BigMemCache ------------------------------
(***************************************************************************)
(* BigMemCache of src/big-memory-cache: features serialized by encode and *)
(* stored in a bigcache.BigCache under their UUID; Get decodes what       *)
(* bigcache returns.  bigcache itself is a map from key to bytes here:    *)
(* its shards, eviction window and hash collisions are not modelled (the  *)
(* eviction time is 100 years and the hard size limit is at least the     *)
(* configured capacity).                                                  *)
(*                                                                         *)
(* A string or []byte is a sequence of runs [n, b], n copies of the byte  *)
(* b, so a field of 65536 bytes is one element and the codec's offsets    *)
(* and uint16 lengths keep their real widths.                             *)
(***************************************************************************)
EXTENDS Integers, Sequences, Bitwise

CONSTANTS
  Features,   \* the features callers Add: records with the fields of Feature
  MaxItems,   \* values of BigMemCacheCfg.MaxNumOfCacheItem
  NoEntry,    \* no bytes stored under a key; Get's nil
  Panic       \* what the program shows once decode has panicked

Keys == {fe.uuid : fe \in Features}

(***************************************************************************)
(* Strings as runs of bytes                                                *)
(***************************************************************************)
Run(n, b) == IF n = 0 THEN << >> ELSE << [n |-> n, b |-> b] >>

\* A sequence of byte values as a string.
AsStr(bs) == [i \in 1..Len(bs) |-> [n |-> 1, b |-> bs[i]]]

\* len(s).  (SequencesExt's FoldLeft folds over SUBSET DOMAIN s, which TLC
\* enumerates when s is primed, as in the refinement mapping.)
RECURSIVE StrLen(_)
StrLen(s) == IF s = << >> THEN 0 ELSE Head(s).n + StrLen(Tail(s))

\* s[i], 0-based as in Go.
RECURSIVE ByteAt(_, _)
ByteAt(s, i) == IF i < Head(s).n THEN Head(s).b ELSE ByteAt(Tail(s), i - Head(s).n)

\* s[from:to]
RECURSIVE Slice(_, _, _)
Slice(s, from, to) ==
  IF s = << >> \/ to <= 0 THEN << >>
  ELSE LET r == Head(s)
           lo == IF from > 0 THEN from ELSE 0
           hi == IF to < r.n THEN to ELSE r.n
       IN (IF lo < hi THEN << [n |-> hi - lo, b |-> r.b] >> ELSE << >>)
            \o Slice(Tail(s), from - r.n, to - r.n)

\* The byte values of s.
BytesOf(s) == [i \in 1..StrLen(s) |-> ByteAt(s, i - 1)]

\* Adjacent runs of one byte merged: equal strings have equal runs.
RECURSIVE Normalize(_)
Normalize(s) ==
  IF Len(s) <= 1 THEN s
  ELSE LET t == Normalize(Tail(s))
       IN IF Head(t).b = Head(s).b
            THEN << [n |-> Head(s).n + Head(t).n, b |-> Head(s).b] >> \o Tail(t)
            ELSE << Head(s) >> \o t

(***************************************************************************)
(* encoding/binary.LittleEndian                                            *)
(***************************************************************************)
\* The k little-endian bytes of v mod 256^k, v >= 0.
RECURSIVE LE(_, _)
LE(v, k) == IF k = 0 THEN << >> ELSE << v % 256 >> \o LE(v \div 256, k - 1)

\* PutUint32(uint32(v)) of a signed v: two's complement.  An int64
\* (CreatedTime) is kept as its eight two's-complement bytes, which
\* PutUint64(uint64(t)) writes and int64(Uint64(b)) reads back unchanged.
PutInt(v, k) == IF v >= 0 THEN LE(v, k) ELSE [i \in 1..k |-> 255 - LE(-v - 1, k)[i]]

RECURSIVE Horner(_)
Horner(bs) == IF bs = << >> THEN 0 ELSE Head(bs) + 256 * Horner(Tail(bs))

\* int32(Uint32(bs)).
Int32Of(bs) ==
  IF bs[4] < 128 THEN Horner(bs) ELSE -Horner([i \in 1..4 |-> 255 - bs[i]]) - 1

\* Uint16(raw[p:])
U16At(raw, p) == ByteAt(raw, p) + 256 * ByteAt(raw, p + 1)

(***************************************************************************)
(* encode and decode (utils.go)                                            *)
(***************************************************************************)
TotalLen(fe) ==
  4 + 4 + 2 + StrLen(fe.uuid) + 2 + StrLen(fe.meta) + 2 + StrLen(fe.blob) + 8

\* Mutant: the length is written big-endian.
PrefixedBigEndian(s) == AsStr(<< (StrLen(s) % 65536) \div 256, StrLen(s) % 256 >>) \o s

\* PutUint16(raw[pos:], uint16(len(s))); copy(raw[pos+2:], s)
Prefixed(s) == AsStr(LE(StrLen(s) % 65536, 2)) \o s

\* encode: uint32(totalLen) (below 2^31 here), the version, the three
\* length-prefixed fields and the creation time, written at pos in turn.
Encode(fe) ==
  AsStr(LE(TotalLen(fe), 4)) \o AsStr(PutInt(fe.version, 4))
    \o Prefixed(fe.uuid) \o Prefixed(fe.meta) \o Prefixed(fe.blob)
    \o AsStr(fe.created)

\* encode's final check, pos != totalLen.
EncodeOK(fe) == StrLen(Encode(fe)) = TotalLen(fe)

\* What decode reads after the stored total length: Version, the three
\* uint16-prefixed fields, CreatedTime.
Schema == << "u32", "str", "str", "str", "u64" >>

FixedSize == [u32 |-> 4, u64 |-> 8]

\* decode from pos on: a read past len(raw), in Uint16/Uint32/Uint64 or in
\* raw[pos:pos+n], panics; at the end pos != totalLen is an error.
RECURSIVE ReadFields(_, _, _)
ReadFields(raw, pos, fs) ==
  IF fs = << >> THEN [st |-> IF pos = StrLen(raw) THEN "ok" ELSE "err", vals |-> << >>]
  ELSE LET hdr == IF Head(fs) = "str" THEN 2 ELSE 0
           n == IF Head(fs) = "str" THEN U16At(raw, pos) ELSE FixedSize[Head(fs)]
       IN IF pos + hdr > StrLen(raw) \/ pos + hdr + n > StrLen(raw)
            THEN [st |-> "panic", vals |-> << >>]
            ELSE LET rest == ReadFields(raw, pos + hdr + n, Tail(fs))
                 IN [rest EXCEPT !.vals = << Slice(raw, pos + hdr, pos + hdr + n) >> \o @]

\* decode: st is "ok" with the feature fe, "err" (a stored length that is
\* not len(raw), or a final pos != totalLen), or "panic".
Decode(raw) ==
  IF StrLen(raw) < 4 THEN [st |-> "panic", fe |-> NoEntry]
  ELSE IF BytesOf(Slice(raw, 0, 4)) # LE(StrLen(raw), 4) THEN [st |-> "err", fe |-> NoEntry]
  ELSE LET r == ReadFields(raw, 4, Schema)
       IN IF r.st # "ok" THEN [st |-> r.st, fe |-> NoEntry]
          ELSE [st |-> "ok",
                fe |-> [version |-> Int32Of(BytesOf(r.vals[1])),
                        uuid |-> Normalize(r.vals[2]), meta |-> Normalize(r.vals[3]),
                        blob |-> Normalize(r.vals[4]), created |-> BytesOf(r.vals[5])]]

(***************************************************************************)
(* defaultBigCacheCfg (big_memory_cache.go) and findNearestPowerOf2Num     *)
(***************************************************************************)
\* for (k << 1) < n { k <<= 1 }: k << 1 cannot wrap for n below 2^63.
RECURSIVE DoubleBelow(_, _)
DoubleBelow(k, n) == IF 2 * k < n THEN DoubleBelow(2 * k, n) ELSE k

\* Mutant: the power-of-two test inverted.
FindNearestPowerOf2NumInverted(n) == IF (n & (n - 1)) # 0 THEN n ELSE DoubleBelow(1, n)

\* n itself when it is a power of two, else the largest power of two below
\* it (a floor, whatever the name says).  n >= 1 here.
FindNearestPowerOf2Num(n) == IF (n & (n - 1)) = 0 THEN n ELSE DoubleBelow(1, n)

\* bcCfg.Shards: one shard per 100 items, a power of two, at most 128.
ShardsOf(maxItems) ==
  LET s == FindNearestPowerOf2Num(maxItems \div 100 + 1) IN IF s > 128 THEN 128 ELSE s

(***************************************************************************)
(* The cache                                                               *)
(***************************************************************************)
VARIABLES
  shards,     \* bcCfg.Shards of the cache NewBigMemCache made
  cache,      \* the bytes bigcache holds under each key, or NoEntry
  last,       \* the last call: which, its key, the feature added or returned
  panicked,   \* a Get panicked in decode
  decoded     \* auxiliary: what the bytes under each key decode to

vars == <<shards, cache, last, panicked, decoded>>

\* The feature the bytes raw decode to; bytes that do not decode are no
\* feature, as Get's nil says.
Stored(raw) == IF raw = NoEntry THEN NoEntry ELSE Decode(raw).fe

\* A call a caller made: which, its key, the feature added or returned.
Call(op, k, res) == [op |-> op, key |-> k, res |-> res]

\* NewBigMemCache(cfg) for any of the configurations.
Init ==
  /\ \E n \in MaxItems : shards = ShardsOf(n)
  /\ cache = [k \in Keys |-> NoEntry]
  /\ last = Call("new", NoEntry, NoEntry)
  /\ panicked = FALSE
  /\ decoded = [k \in Keys |-> NoEntry]

\* Add: encode, and on success cache.Set(fe.UUID, encoded).
Add(fe) ==
  /\ ~panicked
  /\ EncodeOK(fe)
  /\ cache' = [cache EXCEPT ![fe.uuid] = Encode(fe)]
  /\ decoded' = [decoded EXCEPT ![fe.uuid] = Stored(Encode(fe))]
  /\ last' = Call("add", fe.uuid, fe)
  /\ UNCHANGED <<shards, panicked>>

\* Del: cache.Delete(uuid).
Del(k) ==
  /\ ~panicked
  /\ cache' = [cache EXCEPT ![k] = NoEntry]
  /\ decoded' = [decoded EXCEPT ![k] = NoEntry]
  /\ last' = Call("del", k, NoEntry)
  /\ UNCHANGED <<shards, panicked>>

\* Get: nil when bigcache has no entry or decode fails, else the decoded
\* feature; a panic in decode ends the program.
Get(k) ==
  /\ ~panicked
  /\ LET d == IF cache[k] = NoEntry THEN [st |-> "err", fe |-> NoEntry] ELSE Decode(cache[k])
     IN /\ panicked' = (d.st = "panic")
        /\ last' = Call("get", k, IF d.st = "panic" THEN Panic ELSE d.fe)
  /\ UNCHANGED <<shards, cache, decoded>>

\* Reset: cache.Reset().
Reset ==
  /\ ~panicked
  /\ cache' = [k \in Keys |-> NoEntry]
  /\ decoded' = [k \in Keys |-> NoEntry]
  /\ last' = Call("reset", NoEntry, NoEntry)
  /\ UNCHANGED <<shards, panicked>>

Next ==
  \/ \E fe \in Features : Add(fe)
  \/ \E k \in Keys : Del(k) \/ Get(k)
  \/ Reset

Spec == Init /\ [][Next]_vars

(***************************************************************************)
(* Refinement: the feature stored under a key is what its bytes decode to *)
(* (decoded, kept beside cache so that TLC decodes each value once); a    *)
(* panic shows as a Get result no FeatureStore step gives.                *)
(***************************************************************************)
Abs == INSTANCE FeatureStore WITH store <- decoded

TypeOK ==
  /\ shards \in 1..128
  /\ DOMAIN cache = Keys
  /\ last.op \in {"new", "add", "del", "get", "reset"}
  /\ panicked \in BOOLEAN
  /\ decoded = [k \in Keys |-> Stored(cache[k])]

\* BigMemCache implements FeatureStore: what Add stores decodes to the
\* feature added, so Get returns the feature last added under its UUID, or
\* nil after Del or Reset, and never panics.
ImplementsFeatureStore == Abs!Spec

\* defaultBigCacheCfg gives bigcache a shard count it accepts: a power of
\* two (bigcache.NewBigCache refuses any other) and at most 128.
ConfigAccepted == \E i \in 0..7 : shards = 2^i
=============================================================================
