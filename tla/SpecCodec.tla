----------------------------- MODULE SpecCodec -----------------------------
(***************************************************************************)
(* The binary spec that crosses from user space into krunc.ko: encoded by  *)
(* krunc-abi, decoded in the kernel by decode_spec, which is meant to      *)
(* mirror krunc-abi's own decode.                                          *)
(*                                                                         *)
(* The buffer is a sequence of cells: an integer of any width is one, a    *)
(* character is one, and a section's tag and padding share one.  Lengths   *)
(* count cells.  The sections differ only in tag, layout and limits, which *)
(* are tables.  The buffer may reach the module changed in one place: the  *)
(* ioctl takes any buffer, and the decoder must not depend on the encoder. *)
(* OciConfig composes these steps with what comes before and after them.   *)
(***************************************************************************)
EXTENDS Integers, Sequences, SequencesExt

CONSTANTS
    Cells,         \* what a damaged cell may become
    NotUtf8,       \* a character that no UTF-8 string holds
    AbiMax,        \* AbiMax[t]: krunc-abi's limit on the entries of list t
    KernelKeep,    \* KernelKeep[t]: how many of them krunc.ko keeps
    MaxStr,        \* MAX_STR, the same on both sides
    AbiMaxSpec,    \* MAX_SPEC of krunc-abi
    KernelMaxSpec, \* MAX_SPEC of krunc.ko
    HalfWord       \* 2^31: an i32 is at least -HalfWord and below HalfWord

\* Section tags.
ROOTFS == 1
HOSTNAME == 2
ARGV == 3
ENV == 4
NAMESPACES == 5
UIDMAPS == 6
GIDMAPS == 7
FLAGS == 8
CAPBOUNDING == 9
MASKEDPATHS == 11
ROPATHS == 12
RLIMITS == 13
OOMSCOREADJ == 14
CAPSETS == 15
USER == 16
MOUNTS == 17
SYSCTLS == 18

\* The three kinds of section: a bare string, a counted list of entries whose
\* fields Layout gives, and Ints[t] integers.
Strings == {ROOTFS, HOSTNAME}
StrVecs == {ARGV, ENV, MASKEDPATHS, ROPATHS, SYSCTLS}
Lists == StrVecs \cup {UIDMAPS, GIDMAPS, RLIMITS, MOUNTS}
Layout == [t \in Lists |->
    IF t \in StrVecs THEN <<"str">>
    ELSE IF t = MOUNTS THEN <<"str", "str", "str", "int">>
    ELSE <<"int", "int", "int">>]
Ints == [t \in {NAMESPACES, FLAGS, CAPBOUNDING, OOMSCOREADJ, CAPSETS, USER} |->
    CASE t = CAPSETS -> 4 [] t = USER -> 2 [] OTHER -> 1]
Optional == {CAPBOUNDING, OOMSCOREADJ}
Tags == Strings \cup Lists \cup DOMAIN Ints

\* DomainSpec::default: empty, zero, or None.
Default(t) == IF t \in DOMAIN Ints \ Optional THEN [k \in 1..Ints[t] |-> 0] ELSE <<>>

DefaultSpec == [t \in Tags |-> Default(t)]

ASSUME CodecAssumption ==
    /\ \A t \in Lists : AbiMax[t] \in Nat /\ KernelKeep[t] \in Nat \ {0}
    /\ Cells \subseteq Nat
    /\ NotUtf8 \in Cells
    /\ MaxStr \in Nat /\ AbiMaxSpec \in Nat /\ KernelMaxSpec \in Nat
    /\ HalfWord \in Nat \ {0}

VARIABLES
    spec,     \* the DomainSpec to be sent
    sent,     \* the buffer encode returned
    buf,      \* the buffer the ioctl is given
    pc,       \* "encode", "wire", "ioctl", "section", then the outcome:
              \* "InvalidInput", "EINVAL", "ENOMEM" or "spawn"
    pos,      \* cells read by decode_spec
    left,     \* sections still declared
    seen,     \* section tags already parsed
    out       \* DecodedSpec

codecVars == <<spec, sent, buf, pc, pos, left, seen, out>>

-----------------------------------------------------------------------------
(* krunc-abi: encoding.                                                    *)

\* DomainSpec::validate.
Valid(s) ==
    /\ \A t \in Strings : Len(s[t]) <= MaxStr
    /\ \A t \in Lists : Len(s[t]) <= AbiMax[t]
    /\ \A t \in {ARGV, ENV} : \A k \in DOMAIN s[t] : Len(s[t][k][1]) <= MaxStr

WriteField(kind, v) == IF kind = "str" THEN <<Len(v)>> \o v ELSE <<v>>

WriteEntry(t, e) == FlattenSeq([k \in DOMAIN Layout[t] |-> WriteField(Layout[t][k], e[k])])

\* `as u32` of an i32, and back.
AsU32(v) == v % (2 * HalfWord)
AsI32(w) == IF w < HalfWord THEN w ELSE w - 2 * HalfWord

\* Mutant: the strings of a list are counted in cells, not in entries.
PayloadMiscounted(s, t) ==
    LET entries == FlattenSeq([k \in DOMAIN s[t] |-> WriteEntry(t, s[t][k])])
    IN IF t \in Lists THEN <<Len(entries)>> \o entries ELSE s[t]

\* A section's payload: a list is its count and its entries.
Payload(s, t) ==
    IF t \in Lists
    THEN <<Len(s[t])>> \o FlattenSeq([k \in DOMAIN s[t] |-> WriteEntry(t, s[t][k])])
    ELSE IF t = OOMSCOREADJ THEN [k \in DOMAIN s[t] |-> AsU32(s[t][k])]
    ELSE s[t]

\* Only what is not the default is emitted; the four capability sets go with
\* the bounding set.
Emitted(s, t) == IF t = CAPSETS THEN s[CAPBOUNDING] # <<>> ELSE s[t] # Default(t)

EmitOrder ==
    <<ROOTFS, HOSTNAME, ARGV, ENV, NAMESPACES, UIDMAPS, GIDMAPS, FLAGS, CAPBOUNDING, CAPSETS,
      MASKEDPATHS, ROPATHS, RLIMITS, OOMSCOREADJ, USER, MOUNTS, SYSCTLS>>

\* What `emit` adds to the body.
Section(s, t) ==
    IF Emitted(s, t) THEN <<t, Len(Payload(s, t))>> \o Payload(s, t) ELSE <<>>

MAGIC == 7
ABIVERSION == 1
CREATE == 1
Ops == 1..5

\* encode for Op::Create, of a valid spec.
Encode(s) ==
    LET count == Cardinality({k \in DOMAIN EmitOrder : Emitted(s, EmitOrder[k])})
        body == FlattenSeq([k \in DOMAIN EmitOrder |-> Section(s, EmitOrder[k])])
    IN <<MAGIC, ABIVERSION, CREATE, count>> \o body

-----------------------------------------------------------------------------
(* Reading a section.  The two sides share the wire format; they differ in *)
(* what they bound and in whether a string has to be UTF-8.                *)

\* The error of a string taken from the buffer.
StringError(side, s) ==
    IF side = "abi" /\ NotUtf8 \in ToSet(s) THEN "Utf8" ELSE "none"

\* The cursor c after one more field of payload p.
ReadField(side, c, p, kind) ==
    LET n == p[c.at + 1]
        s == SubSeq(p, c.at + 2, c.at + 1 + n)
    IN IF c.err # "none" THEN c
       ELSE IF c.at = Len(p) THEN [c EXCEPT !.err = "Truncated"]
       ELSE IF kind = "int" THEN [c EXCEPT !.at = @ + 1, !.vals = Append(@, n)]
       ELSE IF n > MaxStr THEN [c EXCEPT !.err = "TooLarge"]
       ELSE IF c.at + 1 + n > Len(p) THEN [c EXCEPT !.err = "Truncated"]
       ELSE [at |-> c.at + 1 + n, vals |-> Append(c.vals, s), err |-> StringError(side, s)]

\* The fields of one entry, which begins after cell start.
ReadEntry(side, p, start, kinds) ==
    LET read[k \in 0..Len(kinds)] ==
            IF k = 0 THEN [at |-> start, vals |-> <<>>, err |-> "none"]
            ELSE ReadField(side, read[k - 1], p, kinds[k])
    IN read[Len(kinds)]

\* The cursor c over a list after one more entry.
NextEntry(side, c, p, kinds) ==
    LET e == ReadEntry(side, p, c.at, kinds)
    IN IF c.err # "none" THEN c
       ELSE [at |-> e.at, list |-> Append(c.list, e.vals), err |-> e.err]

\* A list: its count, and as many entries.
ReadEntries(side, p, kinds) ==
    LET read[k \in 0..p[1]] ==
            IF k = 0 THEN [at |-> 1, list |-> <<>>, err |-> "none"]
            ELSE NextEntry(side, read[k - 1], p, kinds)
    IN read[p[1]]

\* krunc.ko reads every entry and keeps the first ones.
Kept(side, t, list) ==
    IF side = "kernel" /\ Len(list) > KernelKeep[t] THEN SubSeq(list, 1, KernelKeep[t]) ELSE list

\* read_strvec, read_maps, read_rlimits, read_mounts; read_strvec_k,
\* read_rlimits_k, read_mounts_k.
ReadList(side, t, p) ==
    LET c == ReadEntries(side, p, Layout[t])
    IN IF p = <<>> THEN [err |-> "Truncated", val |-> <<>>]
       ELSE IF side = "abi" /\ p[1] > AbiMax[t] THEN [err |-> "TooLarge", val |-> <<>>]
       ELSE [err |-> c.err, val |-> Kept(side, t, c.list)]

ReadString(side, p) ==
    [err |-> IF side = "abi" /\ Len(p) > MaxStr THEN "TooLarge" ELSE StringError(side, p),
     val |-> p]

ReadInts(side, t, p) ==
    LET e == ReadEntry(side, p, 0, [k \in 1..Ints[t] |-> "int"])
    IN [err |-> e.err,
        val |-> IF t = OOMSCOREADJ THEN [k \in DOMAIN e.vals |-> AsI32(e.vals[k])] ELSE e.vals]

ReadSection(side, t, p) ==
    IF t \in Lists THEN ReadList(side, t, p)
    ELSE IF t \in Strings THEN ReadString(side, p)
    ELSE ReadInts(side, t, p)

-----------------------------------------------------------------------------
(* krunc-abi: decoding.  Sections with a tag that is not known are skipped;*)
(* decode knows all of Tags.                                               *)

\* One turn of decode's loop.
AbiSection(d, b, known) ==
    LET t == b[d.at + 1]
        next == d.at + 2 + b[d.at + 2]
        r == ReadSection("abi", t, SubSeq(b, d.at + 3, next))
    IN IF d.err # "none" THEN d
       ELSE IF d.at + 2 > Len(b) THEN [d EXCEPT !.err = "Truncated"]
       ELSE IF next > Len(b) THEN [d EXCEPT !.err = "Truncated"]
       ELSE IF t < 64 /\ t \in d.seen THEN [d EXCEPT !.err = "Duplicate"]
       ELSE IF t \notin known THEN [d EXCEPT !.at = next, !.seen = @ \cup {t}]
       ELSE [at |-> next, seen |-> d.seen \cup {t}, err |-> r.err,
             spec |-> [d.spec EXCEPT ![t] = r.val]]

AbiSections(b, known) ==
    LET d[k \in 0..b[4]] ==
            IF k = 0 THEN [at |-> 4, seen |-> {}, err |-> "none", spec |-> DefaultSpec]
            ELSE AbiSection(d[k - 1], b, known)
    IN d[b[4]]

\* The spec, or the AbiError decode stops at.
DecodeKnowing(b, known) ==
    LET d == AbiSections(b, known)
        Error(e) == [err |-> e, spec |-> DefaultSpec]
    IN IF Len(b) > AbiMaxSpec THEN Error("TooLarge")
       ELSE IF Len(b) < 1 THEN Error("Truncated")
       ELSE IF b[1] # MAGIC THEN Error("BadMagic")
       ELSE IF Len(b) < 2 THEN Error("Truncated")
       ELSE IF b[2] # ABIVERSION THEN Error("UnsupportedVersion")
       ELSE IF Len(b) < 3 THEN Error("Truncated")
       ELSE IF b[3] \notin Ops THEN Error("BadOp")
       ELSE IF Len(b) < 4 THEN Error("Truncated")
       ELSE IF b[4] > AbiMaxSpec \div 2 THEN Error("TooLarge")
       ELSE IF d.err # "none" THEN Error(d.err)
       ELSE IF d.at # Len(b) THEN Error("TrailingBytes")
       ELSE IF b[3] = CREATE /\ (d.spec[ROOTFS] = <<>> \/ d.spec[ARGV] = <<>>)
       THEN Error("Missing")
       ELSE [err |-> "none", spec |-> d.spec]

Decode(b) == DecodeKnowing(b, Tags)

-----------------------------------------------------------------------------
\* Nothing is encoded or decoded yet.
WireInit ==
    /\ sent = <<>>
    /\ buf = <<>>
    /\ pos = 0
    /\ left = 0
    /\ seen = {}
    /\ out = DefaultSpec

\* Device::create encodes the spec, or reports the AbiError.
EncodeSpec ==
    /\ pc = "encode"
    /\ IF Valid(spec) /\ Len(Encode(spec)) <= AbiMaxSpec
       THEN /\ pc' = "wire"
            /\ sent' = Encode(spec)
            /\ buf' = Encode(spec)
       ELSE /\ pc' = "InvalidInput"
            /\ UNCHANGED <<sent, buf>>
    /\ UNCHANGED <<spec, pos, left, seen, out>>

\* The caller of the ioctl passes the buffer on as it is, or changed in one
\* cell, cut short, or with a cell too many.
Damaged ==
    {[buf EXCEPT ![k] = c] : k \in DOMAIN buf, c \in Cells}
        \cup {SubSeq(buf, 1, k) : k \in 0..Len(buf)}
        \cup {Append(buf, c) : c \in Cells}

Deliver ==
    /\ pc = "wire"
    /\ pc' = "ioctl"
    /\ buf' \in Damaged
    /\ UNCHANGED <<spec, sent, pos, left, seen, out>>

\* The ioctl's size check and decode_spec up to its loop.
KernelHeader ==
    /\ pc = "ioctl"
    /\ IF /\ Len(buf) <= KernelMaxSpec
          /\ Len(buf) >= 4
          /\ buf[1] = MAGIC
          /\ buf[2] = ABIVERSION
          /\ buf[4] <= KernelMaxSpec \div 2
       THEN /\ pc' = "section"
            /\ pos' = 4
            /\ left' = buf[4]
       ELSE /\ pc' = "EINVAL"
            /\ UNCHANGED <<pos, left>>
    /\ UNCHANGED <<spec, sent, buf, seen, out>>

\* The id maps are the CLI's to write; the module skips their sections.
KernelTags == Tags \ {UIDMAPS, GIDMAPS}

\* Where the section at the cursor ends, if its header and payload are there.
SectionEnd == pos + 2 + buf[pos + 2]

SectionFits == pos + 2 <= Len(buf) /\ SectionEnd <= Len(buf)

SectionRead == ReadSection("kernel", buf[pos + 1], SubSeq(buf, pos + 3, SectionEnd))

\* One turn of decode_spec's loop, given the tags that may not come again.
SectionTurn(repeated) ==
    /\ pc = "section"
    /\ left > 0
    /\ IF /\ SectionFits
          /\ buf[pos + 1] \notin repeated
          /\ buf[pos + 1] \in KernelTags => SectionRead.err = "none"
       THEN /\ pos' = SectionEnd
            /\ left' = left - 1
            /\ seen' = seen \cup {buf[pos + 1]}
            /\ out' = IF buf[pos + 1] \in KernelTags
                      THEN [out EXCEPT ![buf[pos + 1]] = SectionRead.val] ELSE out
            /\ pc' = pc
       ELSE /\ pc' = "EINVAL"
            /\ UNCHANGED <<pos, left, seen, out>>
    /\ UNCHANGED <<spec, sent, buf>>

\* Mutant: a repeated section replaces the first one.
KernelSectionAgain == SectionTurn({})

\* Mutant: a tag the module does not know is refused.
KernelSectionKnown == SectionTurn({t \in seen \cup Cells : t \in seen \/ t \notin Tags})

KernelSection == SectionTurn({t \in seen : t < 64})

\* A KVec cannot grow: the strings and lists are copied out of the buffer.
KernelNoMemory ==
    /\ pc = "section"
    /\ left > 0
    /\ SectionFits
    /\ buf[pos + 1] \in KernelTags \ DOMAIN Ints
    /\ pc' = "ENOMEM"
    /\ UNCHANGED <<spec, sent, buf, pos, left, seen, out>>

\* Nothing may follow the sections, and create_from_blob needs a rootfs and
\* a program before it spawns.
KernelEnd ==
    /\ pc = "section"
    /\ left = 0
    /\ pc' = IF pos = Len(buf) /\ out[ROOTFS] # <<>> /\ out[ARGV] # <<>>
             THEN "spawn" ELSE "EINVAL"
    /\ UNCHANGED <<spec, sent, buf, pos, left, seen, out>>

CodecNext ==
    \/ EncodeSpec
    \/ Deliver
    \/ KernelHeader
    \/ KernelSection
    \/ KernelNoMemory
    \/ KernelEnd

-----------------------------------------------------------------------------
(* Properties.                                                             *)

Named(s) == s[ROOTFS] # <<>> /\ s[ARGV] # <<>>

\* What the module is meant to receive of a spec.
Received(s) == [t \in Tags |-> IF t \in KernelTags THEN s[t] ELSE Default(t)]

\* A spec within the module's limits as well as krunc-abi's: validate does not
\* look at the strings of the path lists, the mounts and the sysctls.
WithinLimits(s) ==
    /\ Len(Encode(s)) <= KernelMaxSpec
    /\ \A t \in Lists \ {UIDMAPS, GIDMAPS} : Len(s[t]) <= KernelKeep[t]
    /\ \A t \in Lists : \A k \in DOMAIN s[t] : \A f \in DOMAIN Layout[t] :
            Layout[t][f] = "str" => Len(s[t][k][f]) <= MaxStr

\* A spec within both sides' limits that is delivered unchanged is never
\* refused as malformed, and the container is spawned from exactly the spec
\* the caller had: what DomainSpec::encode writes, decode_spec reads back.
RoundTrip ==
    buf = sent /\ Named(spec) /\ WithinLimits(spec) =>
        /\ pc # "EINVAL"
        /\ pc = "spawn" => out = Received(spec)

\* decode_spec spawns from no buffer that krunc-abi's decode refuses for its
\* structure, the id maps (which it leaves to the CLI) apart: wherever it is
\* cut, lengthened or changed, only limits, the op (which the ioctl number
\* carries) and UTF-8 separate the two decoders.
NoLooser ==
    pc = "spawn" =>
        DecodeKnowing(buf, KernelTags).err \in {"none", "TooLarge", "BadOp", "Utf8"}

\* On a buffer both accept, decode_spec and decode agree on every section up
\* to the entries the module keeps; and a buffer of legal size that decode
\* accepts for a create is not refused by decode_spec.
DecodersAgree ==
    LET d == Decode(buf)
    IN /\ pc = "spawn" /\ d.err = "none" =>
            \A t \in KernelTags :
                out[t] = IF t \in Lists THEN Kept("kernel", t, d.spec[t]) ELSE d.spec[t]
       /\ pc = "EINVAL" /\ d.err = "none" =>
            \/ Len(buf) > KernelMaxSpec
            \/ ~Named(Received(d.spec))
=============================================================================
