--------------------------- MODULE EndpointsProofs ---------------------------
(***************************************************************************)
(* What a call on either path is promised: for every resolver, host and    *)
(* wait a remote logo is fetched under its guard; for every upload the     *)
(* search of it is bounded and its report true; for every message the      *)
(* request the pipeline runs says what its caller said.                    *)
(***************************************************************************)
EXTENDS Endpoints, DataInduction, SequenceTheorems, TLAPS

-----------------------------------------------------------------------------
(* The remote fetch (module Fetch).                                        *)

\* A fetch past its guard is for a remote https reference to a listed host.
Admitted ==
  /\ stage \in {"guard", "pin", "dial", "header", "body", "sniff"}
       => ref.kind = "remote" /\ AllowRemote
  /\ stage \in {"pin", "dial", "header", "body", "sniff"}
       => ref.scheme = "https" /\ \E e \in Allowlist : e.name = ref.host.name

\* Nothing is pinned that was not checked, and nothing is dialled before.
PinnedVetted ==
  /\ stage = "dial" => pinned \in Addrs /\ pinned.net = "public"
  /\ stage \in {"idle", "guard", "pin", "dial"} => dialled = << >>

\* The reader stops at the sender's end or one byte past the cap.
ReadBounded ==
  /\ stage \in {"idle", "guard", "pin", "dial", "header"} => got = 0
  /\ stage \in {"body", "sniff"} => got <= reply.size
  /\ stage = "sniff" => got = reply.size /\ got <= MaxBytes
  /\ outcome = "ok" => stage = "done"

FetchInv == FetchTypeOK /\ Admitted /\ PinnedVetted /\ ReadBounded
            /\ DialsVetted /\ OneConnection /\ WholeImage

LEMMA UnmapAddr ==
  ASSUME NEW a \in Addrs
  PROVE  Unmap(a) \in Addrs /\ Unmap(a).net = a.net /\ Unmap(a).mapped = FALSE
BY DEF Unmap, Addrs

\* CheckAddr lets through exactly the public range, mapped or not.
LEMMA CheckedIsPublic ==
  ASSUME NEW a \in Addrs, CheckAddr(a)
  PROVE  Unmap(a) \in Addrs /\ Unmap(a).net = "public"
<1>1. /\ Unmap(a) \in Addrs /\ Unmap(a).net = a.net /\ Unmap(a).mapped = FALSE
  BY UnmapAddr
<1>2. a.net \in Ranges
  BY DEF Addrs
<1>3. /\ a.net \notin {"unspecified", "loopback", "private", "link_local", "multicast"}
      /\ a.net \notin {"nat", "protocol", "benchmark", "reserved", "nat64", "sixtofour"}
  BY <1>1 DEF CheckAddr, Classified, BlockedPrefix
<1> QED
  BY <1>1, <1>2, <1>3 DEF Ranges

LEMMA FirstOf ==
  ASSUME NEW S, NEW s \in Seq(S), s # << >>
  PROVE  1 \in DOMAIN s /\ s[1] \in S
OBVIOUS

LEMMA NothingYet ==
  ASSUME NEW S
  PROVE  << >> \in Seq(S) /\ Len(<< >>) = 0 /\ ~\E i \in DOMAIN << >> : TRUE
OBVIOUS

LEMMA VetChecks ==
  ASSUME NEW as \in Seq(Addrs), as # << >>, Vet(as)
  PROVE  \/ stage' = "done" /\ outcome' = "PrivateAddress" /\ pinned' = pinned
         \/ /\ stage' = "dial" /\ outcome' = outcome
            /\ pinned' \in Addrs /\ pinned'.net = "public"
<1>1. 1 \in DOMAIN as /\ as[1] \in Addrs
  BY FirstOf
<1>2. CASE \E i \in DOMAIN as : ~CheckAddr(as[i]) /\ Give("PrivateAddress") /\ UNCHANGED pinned
  BY <1>2 DEF Give
<1>3. CASE /\ \A i \in DOMAIN as : CheckAddr(as[i])
           /\ pinned' = Unmap(as[1]) /\ stage' = "dial" /\ UNCHANGED outcome
  <2>1. CheckAddr(as[1])
    BY <1>1, <1>3
  <2>2. Unmap(as[1]) \in Addrs /\ Unmap(as[1]).net = "public"
    BY <1>1, <2>1, CheckedIsPublic
  <2> QED
    BY <1>3, <2>2
<1> QED
  BY <1>2, <1>3 DEF Vet

LEMMA FetchInitInv == FetchInit => FetchInv
<1> SUFFICES ASSUME FetchInit PROVE FetchInv
  OBVIOUS
<1>1. /\ stage = "idle" /\ ref \in Refs /\ dns \in Answers /\ outcome = Pending
      /\ pinned = NoAddr /\ dialled = << >> /\ reply = NoReply /\ got = 0 /\ elapsed = 0
  BY DEF FetchInit
<1>2. FetchTypeOK
  <2>1. dialled \in Seq(Addrs)
    BY <1>1, NothingYet, Zenon
  <2>2. stage \in Stages /\ outcome \in Outcomes
    BY <1>1 DEF Stages, Outcomes
  <2>3. got \in Nat /\ elapsed \in Nat
    BY <1>1
  <2> QED
    BY <1>1, <2>1, <2>2, <2>3 DEF FetchTypeOK
<1>3. Admitted /\ ReadBounded /\ WholeImage
  <2>1. outcome # "ok"
    BY <1>1 DEF Pending
  <2> QED
    BY <1>1, <2>1 DEF Admitted, ReadBounded, WholeImage
<1>4. PinnedVetted /\ DialsVetted /\ OneConnection
  <2>1. Len(dialled) = 0 /\ ~\E i \in DOMAIN dialled : TRUE
    BY <1>1, NothingYet, Zenon
  <2>2. DialsVetted /\ OneConnection
    BY <2>1 DEF DialsVetted, OneConnection
  <2>3. PinnedVetted
    BY <1>1, Zenon DEF PinnedVetted
  <2> QED
    BY <2>2, <2>3
<1> QED
  BY <1>2, <1>3, <1>4 DEF FetchInv

\* One step keeps the type, whatever the wait and the chunk.
LEMMA FetchTypeStep == FetchTypeOK /\ PinnedVetted /\ [FetchNext]_fetchVars => FetchTypeOK'
<1> SUFFICES ASSUME FetchTypeOK, PinnedVetted, [FetchNext]_fetchVars
             PROVE  FetchTypeOK'
  OBVIOUS
<1> USE FetchAssumption DEF FetchTypeOK
<1>1. CASE ResolveLogo
  BY <1>1 DEF ResolveLogo, Give, Stages, Outcomes
<1>2. CASE Guard
  BY <1>2 DEF Guard, Give, Stages, Outcomes
<1>3. CASE Rebind
  BY <1>3 DEF Rebind
<1>4. CASE PinLiteral
  <2>1. Literals[NormaliseHost(ref.host)] \in Addrs
    BY <1>4 DEF PinLiteral
  <2> DEFINE as == << Literals[NormaliseHost(ref.host)] >>
  <2>2. as \in Seq(Addrs) /\ as # << >>
    BY <2>1
  <2>3. Vet(as)
    BY <1>4 DEF PinLiteral
  <2> HIDE DEF as
  <2> QED
    BY <1>4, <2>2, <2>3, VetChecks DEF PinLiteral, Stages, Outcomes
<1>5. ASSUME NEW d \in Nat, PinName(d) PROVE FetchTypeOK'
  <2>1. elapsed' \in Nat
    BY <1>5 DEF PinName, Spend, Least
  <2>2. CASE Vet(dns) /\ dns # << >>
    BY <1>5, <2>1, <2>2, VetChecks DEF PinName, Stages, Outcomes
  <2>3. CASE stage' = "done" /\ outcome' \in {"Timeout", "Unresolved"} /\ pinned' = pinned
    BY <1>5, <2>1, <2>3 DEF PinName, Stages, Outcomes
  <2> QED
    BY <1>5, <2>2, <2>3 DEF PinName, Give
<1>6. ASSUME NEW d \in Nat, Dial(d) PROVE FetchTypeOK'
  <2>1. elapsed' \in Nat
    BY <1>6 DEF Dial, Spend, Least
  <2>2. dialled' \in Seq(Addrs)
    BY <1>6 DEF Dial, PinnedVetted
  <2> QED
    BY <1>6, <2>1, <2>2 DEF Dial, Give, Stages, Outcomes
<1>7. ASSUME NEW d \in Nat, NEW r \in Replies, Header(r, d) PROVE FetchTypeOK'
  <2>1. elapsed' \in Nat
    BY <1>7 DEF Header, Spend, Least
  <2> QED
    BY <1>7, <2>1 DEF Header, Give, Stages, Outcomes
<1>8. ASSUME NEW d \in Nat, NEW n \in Nat \ {0}, Read(n, d) PROVE FetchTypeOK'
  <2>1. elapsed' \in Nat
    BY <1>8 DEF Read, Spend, Least
  <2>2. reply.size \in Nat
    BY DEF NoReply
  <2>3. got' \in Nat
    BY <1>8, <2>2 DEF Read, Least, ReadLimit
  <2> QED
    BY <1>8, <2>1, <2>3 DEF Read, Give, Stages, Outcomes
<1>9. CASE ReadFails \/ ReadEnds \/ Sniff \/ Abandon
  BY <1>9 DEF ReadFails, ReadEnds, Sniff, Abandon, Give, Stages, Outcomes
<1>10. CASE UNCHANGED fetchVars
  BY <1>10 DEF fetchVars
<1> QED
  BY <1>1, <1>2, <1>3, <1>4, <1>5, <1>6, <1>7, <1>8, <1>9, <1>10 DEF FetchNext, FetchStep, FetchWork

\* A fetch passes its guard only for what the operator allowed.
LEMMA AdmittedStep == Admitted /\ [FetchNext]_fetchVars => Admitted'
<1> SUFFICES ASSUME Admitted, [FetchNext]_fetchVars PROVE Admitted'
  OBVIOUS
<1> USE DEF Admitted, Give
<1>1. CASE ResolveLogo
  BY <1>1 DEF ResolveLogo
<1>2. CASE Guard
  BY <1>2 DEF Guard, Allows, NormaliseHost
<1>3. CASE Rebind \/ PinLiteral \/ \E d \in Nat : PinName(d)
  BY <1>3 DEF Rebind, PinLiteral, PinName, Vet
<1>4. CASE \E d \in Nat : Dial(d) \/ \E r \in Replies : Header(r, d)
  BY <1>4 DEF Dial, Header
<1>5. CASE \E d \in Nat : \E n \in Nat \ {0} : Read(n, d)
  BY <1>5 DEF Read
<1>6. CASE ReadFails \/ ReadEnds \/ Sniff \/ Abandon
  BY <1>6 DEF ReadFails, ReadEnds, Sniff, Abandon
<1>7. CASE UNCHANGED fetchVars
  BY <1>7 DEF fetchVars
<1> QED
  BY <1>1, <1>2, <1>3, <1>4, <1>5, <1>6, <1>7 DEF FetchNext, FetchStep, FetchWork

\* Only pin decides the address, and only Dial uses it.
LEMMA PinnedStep == FetchTypeOK /\ PinnedVetted /\ [FetchNext]_fetchVars => PinnedVetted'
<1> SUFFICES ASSUME FetchTypeOK, PinnedVetted, [FetchNext]_fetchVars PROVE PinnedVetted'
  OBVIOUS
<1> USE DEF PinnedVetted, Give
<1>1. CASE ResolveLogo \/ Guard \/ Rebind
  BY <1>1 DEF ResolveLogo, Guard, Rebind
<1>2. CASE PinLiteral
  <2> DEFINE as == << Literals[NormaliseHost(ref.host)] >>
  <2>1. as \in Seq(Addrs) /\ as # << >>
    BY <1>2, FetchAssumption DEF PinLiteral
  <2>2. Vet(as)
    BY <1>2 DEF PinLiteral
  <2> HIDE DEF as
  <2> QED
    BY <1>2, <2>1, <2>2, VetChecks DEF PinLiteral
<1>3. ASSUME NEW d \in Nat, PinName(d) PROVE PinnedVetted'
  <2>1. dns \in Seq(Addrs)
    BY FetchAssumption DEF FetchTypeOK
  <2>2. CASE Vet(dns) /\ dns # << >>
    BY <1>3, <2>1, <2>2, VetChecks DEF PinName
  <2>3. CASE stage' = "done"
    BY <1>3, <2>3
  <2> QED
    BY <1>3, <2>2, <2>3 DEF PinName
<1>4. CASE \E d \in Nat : Dial(d) \/ \E r \in Replies : Header(r, d)
  BY <1>4 DEF Dial, Header
<1>5. CASE \E d \in Nat : \E n \in Nat \ {0} : Read(n, d)
  BY <1>5 DEF Read
<1>6. CASE ReadFails \/ ReadEnds \/ Sniff \/ Abandon
  BY <1>6 DEF ReadFails, ReadEnds, Sniff, Abandon
<1>7. CASE UNCHANGED fetchVars
  BY <1>7 DEF fetchVars
<1> QED
  BY <1>1, <1>2, <1>3, <1>4, <1>5, <1>6, <1>7 DEF FetchNext, FetchStep, FetchWork

\* The bytes read never pass the sender's end or the reader's limit.
LEMMA ReadStep == FetchTypeOK /\ ReadBounded /\ [FetchNext]_fetchVars => ReadBounded'
<1> SUFFICES ASSUME FetchTypeOK, ReadBounded, [FetchNext]_fetchVars PROVE ReadBounded'
  OBVIOUS
<1>0. reply.size \in Nat /\ got \in Nat /\ MaxBytes \in Nat /\ \A r \in Replies : r.size \in Nat
  BY FetchAssumption DEF FetchTypeOK, NoReply
<1> USE DEF ReadBounded, Give
<1>1. CASE ResolveLogo \/ Guard \/ Rebind
  BY <1>1 DEF ResolveLogo, Guard, Rebind
<1>2. CASE PinLiteral \/ \E d \in Nat : PinName(d)
  BY <1>2 DEF PinLiteral, PinName, Vet
<1>3. CASE \E d \in Nat : Dial(d)
  BY <1>3 DEF Dial
<1>4. ASSUME NEW d \in Nat, NEW r \in Replies, Header(r, d) PROVE ReadBounded'
  BY <1>0, <1>4 DEF Header
<1>5. ASSUME NEW d \in Nat, NEW n \in Nat \ {0}, Read(n, d) PROVE ReadBounded'
  BY <1>0, <1>5 DEF Read, Least, ReadLimit
<1>6. CASE ReadFails \/ ReadEnds \/ Sniff \/ Abandon
  BY <1>0, <1>6 DEF ReadFails, ReadEnds, Sniff, Abandon, Least, ReadLimit
<1>7. CASE UNCHANGED fetchVars
  BY <1>7 DEF fetchVars
<1> QED
  BY <1>1, <1>2, <1>3, <1>4, <1>5, <1>6, <1>7 DEF FetchNext, FetchStep, FetchWork

\* A list of one: what Dial appends is what it holds.
LEMMA FirstDial ==
  ASSUME NEW a \in Addrs
  PROVE  LET s == Append(<< >>, a)
         IN  Len(s) = 1 /\ \A i \in DOMAIN s : s[i] = a
OBVIOUS

\* The dialled address is the vetted one, and it is the only one.
LEMMA DialStep ==
  FetchInv /\ Admitted' /\ [FetchNext]_fetchVars => DialsVetted' /\ OneConnection'
<1> SUFFICES ASSUME FetchInv, [FetchNext]_fetchVars PROVE DialsVetted' /\ OneConnection'
  OBVIOUS
<1>1. CASE UNCHANGED <<dialled, ref>>
  BY <1>1 DEF FetchInv, DialsVetted, OneConnection
<1>2. ASSUME NEW d \in Nat, Dial(d) PROVE DialsVetted' /\ OneConnection'
  <2>1. dialled = << >> /\ dialled' = Append(dialled, pinned) /\ ref' = ref
    BY <1>2 DEF Dial, FetchInv, PinnedVetted
  <2>2. pinned \in Addrs /\ pinned.net = "public"
    BY <1>2 DEF Dial, FetchInv, PinnedVetted
  <2>3. Len(dialled') = 1 /\ \A i \in DOMAIN dialled' : dialled'[i] = pinned
    BY <2>1, <2>2, FirstDial
  <2>4. /\ ref.kind = "remote" /\ ref.scheme = "https" /\ AllowRemote
        /\ \E e \in Allowlist : e.name = ref.host.name
    BY <1>2 DEF Dial, FetchInv, Admitted
  <2>5. DialsVetted'
    BY <2>1, <2>2, <2>3, <2>4 DEF DialsVetted
  <2>6. OneConnection'
    BY <2>3 DEF OneConnection
  <2> QED
    BY <2>5, <2>6
<1>3. CASE ~\E d \in Nat : Dial(d)
  <2>1. UNCHANGED <<dialled, ref>>
    BY <1>3 DEF FetchNext, FetchStep, FetchWork, fetchVars, ResolveLogo, Guard, Rebind, PinLiteral,
       PinName, Header, Read, ReadFails, ReadEnds, Sniff, Abandon
  <2> QED
    BY <1>1, <2>1
<1> QED
  BY <1>2, <1>3

\* Only Sniff says ok, of a body read to its end.
LEMMA WholeStep == FetchInv /\ [FetchNext]_fetchVars => WholeImage'
<1> SUFFICES ASSUME FetchInv, [FetchNext]_fetchVars PROVE WholeImage'
  OBVIOUS
<1> USE DEF FetchInv, ReadBounded, WholeImage, Give
<1>1. CASE ResolveLogo \/ Guard \/ Rebind
  BY <1>1 DEF ResolveLogo, Guard, Rebind
<1>2. CASE PinLiteral \/ \E d \in Nat : PinName(d)
  BY <1>2 DEF PinLiteral, PinName, Vet
<1>3. CASE \E d \in Nat : Dial(d) \/ \E r \in Replies : Header(r, d)
  BY <1>3 DEF Dial, Header
<1>4. CASE \E d \in Nat : \E n \in Nat \ {0} : Read(n, d)
  BY <1>4 DEF Read
<1>5. CASE ReadFails \/ ReadEnds \/ Sniff \/ Abandon
  BY <1>5 DEF ReadFails, ReadEnds, Sniff, Abandon
<1>6. CASE UNCHANGED fetchVars
  BY <1>6 DEF fetchVars
<1> QED
  BY <1>1, <1>2, <1>3, <1>4, <1>5, <1>6 DEF FetchNext, FetchStep, FetchWork

LEMMA FetchInvStep == FetchInv /\ [FetchNext]_fetchVars => FetchInv'
<1> SUFFICES ASSUME FetchInv, [FetchNext]_fetchVars PROVE FetchInv'
  OBVIOUS
<1>1. FetchTypeOK' /\ Admitted' /\ PinnedVetted' /\ ReadBounded'
  BY FetchTypeStep, AdmittedStep, PinnedStep, ReadStep DEF FetchInv
<1>2. DialsVetted' /\ OneConnection' /\ WholeImage'
  BY <1>1, DialStep, WholeStep
<1> QED
  BY <1>1, <1>2 DEF FetchInv

\* Whatever the resolver answers and whenever, and however the host behaves,
\* a fetch dials one vetted public address of a listed host or none, and
\* relays a whole image or none (fetch.go Fetch, pin, dialPinned, client).
THEOREM FetchGuarded ==
  FetchSpec => [](FetchTypeOK /\ DialsVetted /\ OneConnection /\ WholeImage)
<1>1. FetchInit => FetchInv
  BY FetchInitInv
<1>2. FetchInv /\ [FetchNext]_fetchVars => FetchInv'
  BY FetchInvStep
<1>3. FetchInv => FetchTypeOK /\ DialsVetted /\ OneConnection /\ WholeImage
  BY DEF FetchInv
<1> QED
  BY <1>1, <1>2, <1>3, PTL DEF FetchSpec

\* A fetch that goes on has time left, and none was drawn before the first wait.
TimeLeft ==
  /\ elapsed <= Timeout
  /\ stage \in {"idle", "guard"} => elapsed = 0
  /\ stage \in {"guard", "pin", "dial", "header", "body", "sniff"} => elapsed < Timeout
  /\ outcome = "ok" => stage = "done" /\ elapsed < Timeout

LEMMA TimeoutNat == Timeout \in Nat
BY FetchAssumption

LEMMA SpendBounded ==
  ASSUME NEW d \in Nat, elapsed \in Nat, Spend(d)
  PROVE  /\ elapsed' \in Nat /\ elapsed' <= Timeout
         /\ InTime(d) => elapsed' < Timeout
BY TimeoutNat DEF Spend, InTime, Least

LEMMA TimeLeftInit == FetchInit => TimeLeft
<1> SUFFICES ASSUME FetchInit PROVE TimeLeft
  OBVIOUS
<1>1. stage = "idle" /\ elapsed = 0 /\ outcome = Pending
  BY DEF FetchInit
<1>2. elapsed <= Timeout
  <2>1. elapsed = 0 /\ Timeout \in Nat
    BY <1>1, TimeoutNat
  <2> QED
    BY <2>1, SMT
<1>3. stage \notin {"guard", "pin", "dial", "header", "body", "sniff"}
  BY <1>1
<1>4. outcome # "ok"
  BY <1>1 DEF Pending
<1> QED
  BY <1>1, <1>2, <1>3, <1>4, Zenon DEF TimeLeft

LEMMA TimeLeftStep == FetchTypeOK /\ TimeLeft /\ [FetchNext]_fetchVars => TimeLeft'
<1> SUFFICES ASSUME FetchTypeOK, TimeLeft, [FetchNext]_fetchVars PROVE TimeLeft'
  OBVIOUS
<1>0. elapsed \in Nat
  BY DEF FetchTypeOK
<1> USE TimeoutNat DEF TimeLeft, Give
<1>1. CASE ResolveLogo \/ Guard \/ Rebind
  BY <1>1 DEF ResolveLogo, Guard, Rebind, Enabled
<1>2. CASE PinLiteral
  BY <1>2 DEF PinLiteral, Vet
<1>3. CASE \E d \in Nat : PinName(d)
  BY <1>0, <1>3, SpendBounded DEF PinName, Vet
<1>4. CASE \E d \in Nat : Dial(d) \/ \E r \in Replies : Header(r, d)
  BY <1>0, <1>4, SpendBounded DEF Dial, Header
<1>5. CASE \E d \in Nat : \E n \in Nat \ {0} : Read(n, d)
  BY <1>0, <1>5, SpendBounded DEF Read
<1>6. CASE ReadFails \/ ReadEnds \/ Sniff \/ Abandon
  BY <1>6 DEF ReadFails, ReadEnds, Sniff, Abandon
<1>7. CASE UNCHANGED fetchVars
  BY <1>7 DEF fetchVars
<1> QED
  BY <1>1, <1>2, <1>3, <1>4, <1>5, <1>6, <1>7 DEF FetchNext, FetchStep, FetchWork

\* All the waits of a fetch, whatever their number and their lengths, draw
\* from one deadline, and what is relayed came inside it (fetch.go Fetch).
THEOREM FetchInBudget == FetchSpec => []OneBudget
<1>1. FetchInit => TimeLeft
  BY TimeLeftInit
<1>2. FetchTypeOK /\ TimeLeft /\ [FetchNext]_fetchVars => TimeLeft'
  BY TimeLeftStep
<1>3. TimeLeft => OneBudget
  BY DEF TimeLeft, OneBudget
<1> QED
  BY <1>1, <1>2, <1>3, FetchGuarded, PTL DEF FetchSpec

(* A fetch keeps its guard from the first lookup to the last byte, for      *)
(* every resolver, host, allowlist and limit.                               *)
THEOREM FetchIsSound == FetchSpec => []FetchSound
<1>1. DialsVetted /\ OneConnection /\ WholeImage /\ OneBudget => FetchSound
  BY DEF FetchSound
<1>. QED BY <1>1, FetchGuarded, FetchInBudget, PTL

-----------------------------------------------------------------------------
(* The search of an upload (module Decoder).                               *)

\* A rectangle worth walking lies in the image, at a depth the walk can reach.
Inside == {r \in [x : Nat, y : Nat, w : Nat \ {0}, h : Nat \ {0}, depth : 0 .. MaxDepth + 1] :
             r.x + r.w <= Image.w /\ r.y + r.h <= Image.h}

\* What the handler has checked by the time it stands somewhere.
Checked ==
  /\ at \in {"pixels", "formats", "scan"} \/ inflated \/ scans # 0
       => Image.bytes \in 1 .. MaxBody /\ Image.declared \in 1 .. MaxPixels
  /\ at \in {"formats", "scan"} \/ scans # 0 => Image.w * Image.h <= MaxPixels

\* A scan is paid for: by the budget in the walk, by the one answer without it.
Paid ==
  /\ budget \in Nat /\ scans \in Nat
  /\ at \in {"upload", "header", "pixels", "formats"} =>
       budget = ScanBudget /\ scans = 0 /\ todo = <<>> /\ found = <<>>
  /\ upload.multi => scans + budget = ScanBudget
  /\ ~upload.multi => scans <= 1 /\ (at = "scan" => scans = 0)

SearchInv ==
  /\ upload \in Uploads
  /\ at \in {"upload", "header", "pixels", "formats", "scan", "answered"}
  /\ (at = "answered") <=> (said # Silent)
  /\ todo \in Seq(Inside)
  /\ Checked /\ Paid

LEMMA ImageShape ==
  ASSUME upload \in Uploads
  PROVE  /\ upload.multi \in BOOLEAN /\ Image.corrupt \in BOOLEAN
         /\ Image.bytes \in Nat /\ Image.declared \in Nat
         /\ Image.w \in Nat \ {0} /\ Image.h \in Nat \ {0}
         /\ \A c \in Image.codes :
              /\ c.x \in Nat /\ c.w \in Nat \ {0} /\ c.x + c.w <= Image.w
              /\ c.y \in Nat /\ c.h \in Nat \ {0} /\ c.y + c.h <= Image.h
              /\ c.linear \in BOOLEAN /\ c.whole \in BOOLEAN
BY UploadsAssumption DEF Image

LEMMA DecoderNumbers ==
  /\ MaxBody \in Nat /\ MaxPixels \in Nat
  /\ MaxDepth \in Nat /\ ScanBudget \in Nat \ {0} /\ MinDimension \in Nat
BY UploadsAssumption

\* What a sequence holds.
Held(s) == {s[i] : i \in DOMAIN s}

LEMMA HeldTogether ==
  ASSUME NEW S, NEW s \in Seq(S), NEW t \in Seq(S)
  PROVE  s \o t \in Seq(S) /\ Held(s \o t) = Held(s) \cup Held(t)
<1>1. /\ s \o t \in Seq(S) /\ Len(s \o t) = Len(s) + Len(t)
      /\ \A i \in 1 .. Len(s) : (s \o t)[i] = s[i]
      /\ \A i \in 1 .. Len(t) : (s \o t)[Len(s) + i] = t[i]
      /\ Len(s) \in Nat /\ Len(t) \in Nat
  OBVIOUS
<1>2. DOMAIN s = 1 .. Len(s) /\ DOMAIN t = 1 .. Len(t) /\ DOMAIN (s \o t) = 1 .. Len(s) + Len(t)
  BY <1>1
<1>3. ASSUME NEW i \in 1 .. Len(s) + Len(t) PROVE (s \o t)[i] \in Held(s) \cup Held(t)
  <2>1. CASE i \in 1 .. Len(s)
    BY <1>1, <1>2, <2>1 DEF Held
  <2>2. CASE i \notin 1 .. Len(s)
    <3>1. i - Len(s) \in 1 .. Len(t) /\ i = Len(s) + (i - Len(s))
      BY <1>1, <2>2
    <3>2. (s \o t)[i] = t[i - Len(s)]
      BY <1>1, <3>1
    <3>. QED BY <1>2, <3>1, <3>2 DEF Held
  <2>. QED BY <2>1, <2>2
<1>4. ASSUME NEW i \in 1 .. Len(s) PROVE s[i] \in Held(s \o t)
  <2>1. i \in 1 .. Len(s) + Len(t) /\ (s \o t)[i] = s[i]
    BY <1>1
  <2>. QED BY <1>2, <2>1 DEF Held
<1>5. ASSUME NEW i \in 1 .. Len(t) PROVE t[i] \in Held(s \o t)
  <2>1. Len(s) + i \in 1 .. Len(s) + Len(t) /\ (s \o t)[Len(s) + i] = t[i]
    BY <1>1
  <2>. QED BY <1>2, <2>1 DEF Held
<1>6. Held(s \o t) \subseteq Held(s) \cup Held(t)
  BY <1>2, <1>3 DEF Held
<1>7. Held(s) \cup Held(t) \subseteq Held(s \o t)
  BY <1>2, <1>4, <1>5 DEF Held
<1>. QED BY <1>1, <1>6, <1>7

LEMMA HeldIn ==
  ASSUME NEW S, NEW s \in Seq(S)
  PROVE  Held(s) \subseteq S /\ (s # <<>> => Head(s) \in Held(s) /\ Tail(s) \in Seq(S)
                                            /\ Held(s) = {Head(s)} \cup Held(Tail(s)))
<1>1. /\ Len(s) \in Nat /\ DOMAIN s = 1 .. Len(s)
      /\ \A i \in 1 .. Len(s) : s[i] \in S
  OBVIOUS
<1>2. Held(s) \subseteq S
  BY <1>1 DEF Held
<1>3. ASSUME s # <<>>
      PROVE  Head(s) \in Held(s) /\ Tail(s) \in Seq(S) /\ Held(s) = {Head(s)} \cup Held(Tail(s))
  <2>1. /\ Len(s) >= 1 /\ Head(s) = s[1] /\ Tail(s) \in Seq(S) /\ Len(Tail(s)) = Len(s) - 1
        /\ \A i \in 1 .. Len(s) - 1 : Tail(s)[i] = s[i + 1]
    BY <1>3
  <2>2. DOMAIN Tail(s) = 1 .. Len(s) - 1
    BY <2>1
  <2>3. Head(s) \in Held(s)
    BY <1>1, <2>1 DEF Held
  <2>4. ASSUME NEW i \in 1 .. Len(s) - 1 PROVE Tail(s)[i] \in Held(s)
    <3>1. i + 1 \in 1 .. Len(s)
      BY <1>1
    <3>. QED BY <1>1, <2>1, <3>1 DEF Held
  <2>5. ASSUME NEW i \in 1 .. Len(s), i # 1 PROVE s[i] \in Held(Tail(s))
    <3>1. i - 1 \in 1 .. Len(s) - 1 /\ i = (i - 1) + 1
      BY <1>1, <2>5
    <3>2. Tail(s)[i - 1] = s[i]
      BY <2>1, <3>1
    <3>. QED BY <2>2, <3>1, <3>2 DEF Held
  <2>6. Held(Tail(s)) \subseteq Held(s)
    BY <2>2, <2>4 DEF Held
  <2>7. Held(s) \subseteq {Head(s)} \cup Held(Tail(s))
    BY <1>1, <2>1, <2>5 DEF Held
  <2>. QED BY <2>1, <2>3, <2>6, <2>7
<1>. QED BY <1>2, <1>3

LEMMA KeptHeld ==
  ASSUME NEW S, NEW s \in S
  PROVE  Kept(s) \in Seq(S) /\ Held(Kept(s)) = {x \in {s} : x.own > MinDimension}
<1>1. <<s>> \in Seq(S) /\ DOMAIN <<s>> = {1} /\ <<s>>[1] = s
  OBVIOUS
<1>2. << >> \in Seq(S) /\ DOMAIN << >> = {}
  OBVIOUS
<1>3. CASE s.own > MinDimension
  <2>1. Kept(s) = <<s>>
    BY <1>3 DEF Kept
  <2>. QED BY <1>1, <1>3, <2>1 DEF Held
<1>4. CASE ~(s.own > MinDimension)
  <2>1. Kept(s) = << >>
    BY <1>4 DEF Kept
  <2>. QED BY <1>2, <1>4, <2>1 DEF Held
<1>. QED BY <1>3, <1>4

LEMMA FourKept ==
  ASSUME NEW S, NEW s1 \in S, NEW s2 \in S, NEW s3 \in S, NEW s4 \in S
  PROVE  LET t == Kept(s1) \o Kept(s2) \o Kept(s3) \o Kept(s4)
         IN  t \in Seq(S) /\ Held(t) = {x \in {s1, s2, s3, s4} : x.own > MinDimension}
<1> DEFINE k1 == Kept(s1)
           k2 == Kept(s2)
           k3 == Kept(s3)
           k4 == Kept(s4)
           two == k1 \o k2
           three == two \o k3
           Wide(X) == {x \in X : x.own > MinDimension}
<1>1. /\ k1 \in Seq(S) /\ Held(k1) = Wide({s1})
      /\ k2 \in Seq(S) /\ Held(k2) = Wide({s2})
      /\ k3 \in Seq(S) /\ Held(k3) = Wide({s3})
      /\ k4 \in Seq(S) /\ Held(k4) = Wide({s4})
  BY KeptHeld
<1>2. /\ Wide({s1}) \cup Wide({s2}) = Wide({s1, s2})
      /\ Wide({s1, s2}) \cup Wide({s3}) = Wide({s1, s2, s3})
      /\ Wide({s1, s2, s3}) \cup Wide({s4}) = Wide({s1, s2, s3, s4})
  OBVIOUS
<1>3. two \in Seq(S) /\ Held(two) = Wide({s1, s2})
  <2> HIDE DEF k1, k2, Wide
  <2>1. two \in Seq(S) /\ Held(two) = Held(k1) \cup Held(k2)
    BY <1>1, HeldTogether
  <2>. QED BY <1>1, <1>2, <2>1
<1>4. three \in Seq(S) /\ Held(three) = Wide({s1, s2, s3})
  <2> HIDE DEF two, k3, Wide
  <2>1. three \in Seq(S) /\ Held(three) = Held(two) \cup Held(k3)
    BY <1>1, <1>3, HeldTogether
  <2>. QED BY <1>1, <1>2, <1>3, <2>1
<1>5. three \o k4 \in Seq(S) /\ Held(three \o k4) = Wide({s1, s2, s3, s4})
  <2> HIDE DEF three, k4, Wide
  <2>1. three \o k4 \in Seq(S) /\ Held(three \o k4) = Held(three) \cup Held(k4)
    BY <1>1, <1>4, HeldTogether
  <2>. QED BY <1>1, <1>2, <1>4, <2>1
<1>. QED BY <1>5

\* All of a code lies in a rectangle.
Within(c, r) == Across(c, r) /\ r.y <= c.y /\ c.y + c.h <= r.y + r.h

LEMMA RowShape ==
  ASSUME upload \in Uploads, NEW r \in Inside, NEW c \in Image.codes, NEW row \in Rows(c, r)
  PROVE  /\ row \in Nat /\ r.y <= row /\ c.y <= row /\ row < c.y + c.h
         /\ c.linear => row < r.y + r.h
         /\ ~c.linear => row = c.y /\ c.y + c.h <= r.y + r.h
<1>1. /\ c.x \in Nat /\ c.w \in Nat \ {0} /\ c.y \in Nat /\ c.h \in Nat \ {0}
      /\ c.linear \in BOOLEAN
  BY ImageShape
<1>2. r.y \in Nat /\ r.h \in Nat \ {0}
  BY DEF Inside
<1>3. CASE c.linear
  BY <1>1, <1>2, <1>3 DEF Rows
<1>4. CASE ~c.linear
  BY <1>1, <1>2, <1>4 DEF Rows
<1>. QED BY <1>1, <1>3, <1>4

\* The box of a hit lies in its rectangle.
LEMMA BoxInside ==
  ASSUME upload \in Uploads, NEW r \in Inside, NEW c \in Image.codes, Across(c, r),
         NEW row \in Rows(c, r)
  PROVE  LET b == Box(c, row, r)
         IN  /\ b.x \in Nat /\ b.y \in Nat /\ b.w \in Nat \ {0} /\ b.h \in Nat
             /\ b.x + b.w <= r.w /\ b.y + b.h <= r.h
             /\ b.x = c.x - r.x /\ b.y = row - r.y /\ b.w = c.w
             /\ c.linear => b.h = 0
             /\ ~c.linear => b.h = c.h
<1>1. /\ c.x \in Nat /\ c.w \in Nat \ {0} /\ c.y \in Nat /\ c.h \in Nat \ {0}
      /\ c.linear \in BOOLEAN
  BY ImageShape
<1>2. r.x \in Nat /\ r.w \in Nat \ {0} /\ r.y \in Nat /\ r.h \in Nat \ {0}
  BY DEF Inside
<1>3. /\ row \in Nat /\ r.y <= row
      /\ c.linear => row < r.y + r.h
      /\ ~c.linear => row = c.y /\ c.y + c.h <= r.y + r.h
  BY RowShape
<1>4. r.x <= c.x /\ c.x + c.w <= r.x + r.w
  BY DEF Across
<1> DEFINE b == Box(c, row, r)
<1>5. b.x = c.x - r.x /\ b.y = row - r.y /\ b.w = c.w /\ b.h = IF c.linear THEN 0 ELSE c.h
  BY DEF Box
<1> HIDE DEF b
<1>6. b.x \in Nat /\ b.y \in Nat /\ b.w \in Nat \ {0} /\ b.h \in Nat
  BY <1>1, <1>2, <1>3, <1>4, <1>5
<1>7. b.x + b.w <= r.w /\ b.y + b.h <= r.h
  <2>1. b.x + b.w <= r.w
    BY <1>1, <1>2, <1>4, <1>5
  <2>2. CASE c.linear
    BY <1>1, <1>2, <1>3, <1>5, <2>1, <2>2
  <2>3. CASE ~c.linear
    BY <1>1, <1>2, <1>3, <1>5, <2>1, <2>3
  <2>. QED BY <2>2, <2>3
<1>. QED BY <1>5, <1>6, <1>7 DEF b

\* A strip of a rectangle, before it is cropped.
StripsOf(r) == {s \in [x : Nat, y : Nat, w : Int, h : Int, own : Int] :
                  /\ s.own > MinDimension => s.w > 0 /\ s.h > 0
                  /\ s.x + s.w <= r.w /\ s.y + s.h <= r.h}

LEMMA CropInside ==
  ASSUME NEW r \in Inside, r.depth <= MaxDepth, upload \in Uploads,
         NEW s \in StripsOf(r), s.own > MinDimension
  PROVE  Crop(s, r) \in Inside
<1>1. s.x \in Nat /\ s.y \in Nat /\ s.w \in Nat \ {0} /\ s.h \in Nat \ {0}
      /\ s.x + s.w <= r.w /\ s.y + s.h <= r.h
  BY DEF StripsOf
<1>2. /\ r.x \in Nat /\ r.w \in Nat \ {0} /\ r.y \in Nat /\ r.h \in Nat \ {0}
      /\ r.depth \in 0 .. MaxDepth + 1 /\ r.x + r.w <= Image.w /\ r.y + r.h <= Image.h
  BY DEF Inside
<1>3. Image.w \in Nat /\ Image.h \in Nat /\ MaxDepth \in Nat
  BY ImageShape, DecoderNumbers
<1> DEFINE q == Crop(s, r)
<1>4. q \in [x : Nat, y : Nat, w : Nat \ {0}, h : Nat \ {0}, depth : 0 .. MaxDepth + 1]
  <2>1. r.x + s.x \in Nat /\ r.y + s.y \in Nat /\ r.depth + 1 \in 0 .. MaxDepth + 1
    BY <1>1, <1>2, <1>3
  <2>. QED BY <1>1, <2>1 DEF Crop
<1>5. q.x = r.x + s.x /\ q.y = r.y + s.y /\ q.w = s.w /\ q.h = s.h
  BY DEF Crop
<1>6. q.x + q.w <= Image.w /\ q.y + q.h <= Image.h
  <2> HIDE DEF q
  <2>. QED BY <1>1, <1>2, <1>3, <1>5
<1>. QED BY <1>4, <1>6 DEF Inside

\* The strips of a hit, and what is left of a code beside it: one of the four
\* strips holds all of it, and is wide enough to be kept.
LEMMA StripsHold ==
  ASSUME upload \in Uploads, NEW r \in Inside, NEW c \in Image.codes, Across(c, r),
         NEW row \in Rows(c, r)
  PROVE  LET t == Strips(Box(c, row, r), r)
         IN  /\ t \in Seq(StripsOf(r))
             /\ \A s \in Held(t) : s.own > MinDimension
             /\ \A e \in Image.codes :
                  Within(e, r) /\ Large(e) /\ Apart(c, e) => \E s \in Held(t) : Within(e, Crop(s, r))
<1> DEFINE b == Box(c, row, r)
           s1 == [x |-> 0, y |-> 0, w |-> b.x, h |-> r.h, own |-> b.x]
           s2 == [x |-> 0, y |-> 0, w |-> r.w, h |-> b.y, own |-> b.y]
           s3 == [x |-> b.x + b.w, y |-> 0, w |-> r.w - (b.x + b.w), h |-> r.h,
                  own |-> r.w - (b.x + b.w)]
           s4 == [x |-> 0, y |-> b.y + b.h, w |-> r.w, h |-> r.h - (b.y + b.h),
                  own |-> r.h - (b.y + b.h)]
           t == Kept(s1) \o Kept(s2) \o Kept(s3) \o Kept(s4)
<1>1. /\ b.x \in Nat /\ b.y \in Nat /\ b.w \in Nat \ {0} /\ b.h \in Nat
      /\ b.x + b.w <= r.w /\ b.y + b.h <= r.h
      /\ b.x = c.x - r.x /\ b.y = row - r.y /\ b.w = c.w
      /\ c.linear => b.h = 0
      /\ ~c.linear => b.h = c.h
  BY BoxInside
<1>2. r.x \in Nat /\ r.w \in Nat \ {0} /\ r.y \in Nat /\ r.h \in Nat \ {0}
  BY DEF Inside
<1>3. MinDimension \in Nat
  BY DecoderNumbers
<1>4. Strips(b, r) = t
  BY DEF Strips
<1> HIDE DEF b
<1>5. s1 \in StripsOf(r) /\ s2 \in StripsOf(r) /\ s3 \in StripsOf(r) /\ s4 \in StripsOf(r)
  BY <1>1, <1>2, <1>3 DEF StripsOf
<1>6. t \in Seq(StripsOf(r)) /\ Held(t) = {x \in {s1, s2, s3, s4} : x.own > MinDimension}
  <2> HIDE DEF s1, s2, s3, s4
  <2>. QED BY <1>5, FourKept
<1>7. ASSUME NEW e \in Image.codes, Within(e, r), Large(e), Apart(c, e)
      PROVE  \E s \in Held(t) : Within(e, Crop(s, r))
  <2>1. /\ c.x \in Nat /\ c.w \in Nat \ {0} /\ c.y \in Nat /\ c.h \in Nat \ {0}
        /\ e.x \in Nat /\ e.w \in Nat \ {0} /\ e.y \in Nat /\ e.h \in Nat \ {0}
        /\ c.linear \in BOOLEAN
    BY ImageShape
  <2>2. /\ row \in Nat /\ c.y <= row /\ row < c.y + c.h
        /\ ~c.linear => row = c.y
    BY RowShape
  <2>3. /\ r.x <= e.x /\ e.x + e.w <= r.x + r.w /\ r.y <= e.y /\ e.y + e.h <= r.y + r.h
        /\ e.w > MinDimension /\ e.h > MinDimension
    BY <1>7 DEF Within, Across, Large
  <2> DEFINE In(s) == /\ s.x + r.x <= e.x /\ e.x + e.w <= s.x + r.x + s.w
                      /\ s.y + r.y <= e.y /\ e.y + e.h <= s.y + r.y + s.h
  <2>4. ASSUME NEW s \in StripsOf(r), In(s) PROVE Within(e, Crop(s, r))
    <3>1. /\ Crop(s, r).x = r.x + s.x /\ Crop(s, r).y = r.y + s.y
          /\ Crop(s, r).w = s.w /\ Crop(s, r).h = s.h
      BY DEF Crop
    <3>2. s.x \in Nat /\ s.y \in Nat /\ s.w \in Int /\ s.h \in Int
      BY DEF StripsOf
    <3>. QED BY <1>2, <2>1, <2>4, <3>1, <3>2 DEF Within, Across
  <2>5. CASE e.x + e.w <= c.x
    <3>1. s1.own > MinDimension /\ In(s1)
      BY <1>1, <1>2, <1>3, <2>1, <2>3, <2>5
    <3>. QED BY <1>5, <1>6, <2>4, <3>1
  <2>6. CASE e.y + e.h <= c.y
    <3>1. s2.own > MinDimension /\ In(s2)
      BY <1>1, <1>2, <1>3, <2>1, <2>2, <2>3, <2>6
    <3>. QED BY <1>5, <1>6, <2>4, <3>1
  <2>7. CASE c.x + c.w <= e.x
    <3>1. s3.own > MinDimension /\ In(s3)
      BY <1>1, <1>2, <1>3, <2>1, <2>3, <2>7
    <3>. QED BY <1>5, <1>6, <2>4, <3>1
  <2>8. CASE c.y + c.h <= e.y
    <3>1. s4.own > MinDimension /\ In(s4)
      <4>1. CASE c.linear
        BY <1>1, <1>2, <1>3, <2>1, <2>2, <2>3, <2>8, <4>1
      <4>2. CASE ~c.linear
        BY <1>1, <1>2, <1>3, <2>1, <2>2, <2>3, <2>8, <4>2
      <4>. QED BY <2>1, <4>1, <4>2
    <3>. QED BY <1>5, <1>6, <2>4, <3>1
  <2>. QED BY <1>7, <2>5, <2>6, <2>7, <2>8 DEF Apart
<1>8. \A s \in Held(t) : s.own > MinDimension
  BY <1>6
<1>. QED BY <1>4, <1>6, <1>7, <1>8 DEF b

LEMMA HeldAppended ==
  ASSUME NEW S, NEW s \in Seq(S), NEW x \in S
  PROVE  Append(s, x) \in Seq(S) /\ Held(Append(s, x)) = Held(s) \cup {x}
<1>1. /\ Append(s, x) \in Seq(S) /\ Len(s) \in Nat /\ DOMAIN s = 1 .. Len(s)
      /\ DOMAIN Append(s, x) = 1 .. Len(s) + 1
      /\ \A i \in 1 .. Len(s) : Append(s, x)[i] = s[i]
      /\ Append(s, x)[Len(s) + 1] = x
  OBVIOUS
<1>2. ASSUME NEW i \in 1 .. Len(s) + 1 PROVE Append(s, x)[i] \in Held(s) \cup {x}
  <2>1. CASE i = Len(s) + 1
    BY <1>1, <2>1
  <2>2. CASE i # Len(s) + 1
    <3>1. i \in 1 .. Len(s)
      BY <1>1, <2>2
    <3>. QED BY <1>1, <3>1 DEF Held
  <2>. QED BY <2>1, <2>2
<1>3. \A i \in 1 .. Len(s) : i \in 1 .. Len(s) + 1 /\ s[i] \in Held(Append(s, x))
  <2>1. \A i \in 1 .. Len(s) : i \in 1 .. Len(s) + 1
    BY <1>1
  <2>. QED BY <1>1, <2>1 DEF Held
<1>4. x \in Held(Append(s, x))
  <2>1. Len(s) + 1 \in 1 .. Len(s) + 1
    BY <1>1
  <2>. QED BY <1>1, <2>1 DEF Held
<1>5. Held(Append(s, x)) \subseteq Held(s) \cup {x}
  BY <1>1, <1>2 DEF Held
<1>6. Held(s) \cup {x} \subseteq Held(Append(s, x))
  BY <1>1, <1>3, <1>4 DEF Held
<1>. QED BY <1>1, <1>5, <1>6

LEMMA FormatNames ==
  /\ Len(FormatMap) \in Nat /\ DOMAIN FormatMap = 1 .. Len(FormatMap)
  /\ \A i \in 1 .. Len(FormatMap) : FormatMap[i] \in Named
  /\ \A f \in UpcEan : HasReader(f)
<1>1. DOMAIN FormatMap = 1 .. 13 /\ Len(FormatMap) = 13
  BY DEF FormatMap
<1>2. FormatMap[5] = "ean13" /\ FormatMap[6] = "ean8" /\ FormatMap[7] = "upca" /\ FormatMap[8] = "upce"
  BY DEF FormatMap
<1>3. \A i \in 1 .. 13 : FormatMap[i] \in Named
  BY <1>1 DEF Named
<1>4. UpcEan \subseteq Named
  <2>1. 5 \in 1 .. 13 /\ 6 \in 1 .. 13 /\ 7 \in 1 .. 13 /\ 8 \in 1 .. 13
    OBVIOUS
  <2>. QED BY <1>2, <1>3, <2>1 DEF UpcEan
<1>5. "pdf417" \notin UpcEan
  BY DEF UpcEan
<1>. QED BY <1>1, <1>3, <1>4, <1>5 DEF HasReader

\* The readers a filter leaves report every wanted symbology that has one, and
\* nothing else.
LEMMA ReadersWant ==
  ASSUME NEW names
  PROVE  /\ Readers(names) \in Seq(SUBSET Named)
         /\ \A i \in DOMAIN Readers(names) : \A f \in Readers(names)[i] : HasReader(f) /\ Wants(names, f)
         /\ \A f \in Named : HasReader(f) /\ Wants(names, f)
              => \E i \in DOMAIN Readers(names) : f \in Readers(names)[i]
<1> DEFINE kept(i) == /\ Wants(names, FormatMap[i]) /\ HasReader(FormatMap[i])
                      /\ FormatMap[i] \in UpcEan =>
                           ~ \E j \in 1 .. i - 1 : FormatMap[j] \in UpcEan /\ Wants(names, FormatMap[j])
           reports(i) == IF FormatMap[i] \in UpcEan
                         THEN {f \in UpcEan : Wants(names, f)} ELSE {FormatMap[i]}
           Builds(g, n) == g = [i \in 0 .. n |-> IF i = 0 THEN <<>> ELSE IF kept(i)
                                THEN Append(g[i - 1], reports(i)) ELSE g[i - 1]]
           list == CHOOSE g : Builds(g, Len(FormatMap))
<1>1. Readers(names) = list[Len(FormatMap)]
  BY DEF Readers
<1>2. Len(FormatMap) \in Nat /\ DOMAIN FormatMap = 1 .. Len(FormatMap)
      /\ \A i \in 1 .. Len(FormatMap) : FormatMap[i] \in Named
  BY FormatNames
<1>3. \A n \in Nat : \E g : Builds(g, n)
  <2> DEFINE Failing == {n \in Nat : ~\E g : Builds(g, n)}
  <2>1. SUFFICES ASSUME Failing # {} PROVE FALSE
    OBVIOUS
  <2>2. PICK n \in Failing : \A m \in Failing : n <= m
    BY <2>1, LeastNumber
  <2>3. n # 0
    <3>1. Builds([i \in 0 .. 0 |-> <<>>], 0)
      OBVIOUS
    <3>. QED BY <3>1
  <2>4. PICK g : Builds(g, n - 1)
    <3>1. n \in Nat /\ n - 1 \in Nat /\ ~(n <= n - 1)
      BY <2>2, <2>3
    <3>2. n - 1 \notin Failing
      <4> HIDE DEF Failing
      <4>. QED BY <2>2, <3>1
    <3>. QED BY <3>1, <3>2
  <2> DEFINE h == [i \in 0 .. n |-> IF i = n
                    THEN IF kept(n) THEN Append(g[n - 1], reports(n)) ELSE g[n - 1] ELSE g[i]]
  <2> HIDE DEF kept, reports
  <2>5. Builds(h, n)
    <3>1. \A i \in 0 .. n - 1 : h[i] = g[i]
      BY <2>2
    <3>2. ASSUME NEW i \in 0 .. n
          PROVE  h[i] = IF i = 0 THEN <<>> ELSE IF kept(i)
                        THEN Append(h[i - 1], reports(i)) ELSE h[i - 1]
      <4>1. CASE i = n
        <5>1. h[n - 1] = g[n - 1]
          BY <2>2, <2>3, <3>1
        <5>. QED BY <2>3, <4>1, <5>1
      <4>2. CASE i = 0
        BY <2>3, <2>4, <4>2
      <4>3. CASE i \in 1 .. n - 1
        <5>1. h[i] = g[i] /\ h[i - 1] = g[i - 1]
          BY <2>2, <3>1, <4>3
        <5>2. i \in 0 .. n - 1 /\ i # 0
          BY <2>2, <4>3
        <5>3. g[i] = IF kept(i) THEN Append(g[i - 1], reports(i)) ELSE g[i - 1]
          BY <2>4, <5>2
        <5>. QED BY <5>1, <5>2, <5>3
      <4>. QED BY <2>2, <4>1, <4>2, <4>3
    <3> HIDE DEF h
    <3>3. h = [i \in 0 .. n |-> h[i]]
      BY DEF h
    <3>. QED BY <3>2, <3>3
  <2>. QED BY <2>2, <2>5
<1>4. Builds(list, Len(FormatMap))
  BY <1>2, <1>3
<1> HIDE DEF list
<1>5. list[0] = <<>> /\ \A i \in 1 .. Len(FormatMap) :
        list[i] = IF kept(i) THEN Append(list[i - 1], reports(i)) ELSE list[i - 1]
  <2> HIDE DEF kept, reports
  <2>1. ASSUME NEW i \in 0 .. Len(FormatMap)
        PROVE  list[i] = IF i = 0 THEN <<>> ELSE IF kept(i)
                         THEN Append(list[i - 1], reports(i)) ELSE list[i - 1]
    BY <1>4
  <2>2. 0 \in 0 .. Len(FormatMap)
        /\ \A i \in 1 .. Len(FormatMap) : i \in 0 .. Len(FormatMap) /\ i # 0
    BY <1>2
  <2>. QED BY <2>1, <2>2
<1>6. ASSUME NEW i \in 1 .. Len(FormatMap) PROVE reports(i) \in SUBSET Named
  BY <1>2, FormatNames DEF HasReader
<1> DEFINE Sound(n) == /\ list[n] \in Seq(SUBSET Named)
                       /\ Held(list[n]) = {reports(j) : j \in {k \in 1 .. n : kept(k)}}
<1>7. \A n \in 0 .. Len(FormatMap) : Sound(n)
  <2> DEFINE Failing == {n \in 0 .. Len(FormatMap) : ~Sound(n)}
  <2>1. SUFFICES ASSUME Failing # {} PROVE FALSE
    OBVIOUS
  <2>2. PICK n \in Failing : \A m \in Failing : n <= m
    <3>1. Failing \in SUBSET Nat
      BY <1>2
    <3>. QED BY <2>1, <3>1, LeastNumber
  <2> HIDE DEF kept, reports
  <2>3. n # 0
    <3>1. Sound(0)
      <4>1. Held(<<>>) = {} /\ <<>> \in Seq(SUBSET Named)
        BY DEF Held
      <4>. QED BY <1>5, <4>1
    <3>. QED BY <3>1
  <2>4. n \in 1 .. Len(FormatMap) /\ Sound(n - 1)
    <3>1. n \in 1 .. Len(FormatMap) /\ n - 1 \in 0 .. Len(FormatMap)
      BY <1>2, <2>3
    <3>2. n - 1 \notin Failing
      <4>1. n \in Nat /\ ~(n <= n - 1)
        BY <1>2, <3>1
      <4> HIDE DEF Failing
      <4>. QED BY <2>2, <4>1
    <3>. QED BY <3>1, <3>2
  <2>5. 1 .. n = (1 .. n - 1) \cup {n}
    BY <1>2, <2>4
  <2>6. CASE kept(n)
    <3>1. list[n] = Append(list[n - 1], reports(n))
      BY <1>5, <2>4, <2>6
    <3>2. list[n] \in Seq(SUBSET Named) /\ Held(list[n]) = Held(list[n - 1]) \cup {reports(n)}
      <4>1. reports(n) \in SUBSET Named
        BY <1>6, <2>4
      <4> HIDE DEF Sound
      <4>2. list[n - 1] \in Seq(SUBSET Named)
        BY <2>4 DEF Sound
      <4>. QED BY <3>1, <4>1, <4>2, HeldAppended
    <3>. QED BY <2>2, <2>4, <2>5, <2>6, <3>2
  <2>7. CASE ~kept(n)
    <3>1. list[n] = list[n - 1]
      BY <1>5, <2>4, <2>7
    <3>. QED BY <2>2, <2>4, <2>5, <2>7, <3>1
  <2>. QED BY <2>6, <2>7
<1>8. /\ Readers(names) \in Seq(SUBSET Named)
      /\ Held(Readers(names)) = {reports(j) : j \in {k \in 1 .. Len(FormatMap) : kept(k)}}
  <2>1. Sound(Len(FormatMap))
    <3>1. Len(FormatMap) \in 0 .. Len(FormatMap)
      BY <1>2
    <3> HIDE DEF Sound
    <3>. QED BY <1>7, <3>1
  <2>. QED BY <1>1, <2>1
<1>9. ASSUME NEW j \in 1 .. Len(FormatMap), kept(j), NEW f \in reports(j)
      PROVE  HasReader(f) /\ Wants(names, f)
  BY <1>9, FormatNames
<1>10. ASSUME NEW f \in Named, HasReader(f), Wants(names, f)
       PROVE  \E j \in 1 .. Len(FormatMap) : kept(j) /\ f \in reports(j)
  <2>1. PICK j \in 1 .. Len(FormatMap) : FormatMap[j] = f
    BY <1>2 DEF Named
  <2>2. CASE f \notin UpcEan
    BY <1>10, <2>1, <2>2
  <2>3. CASE f \in UpcEan
    <3> DEFINE Retail == {k \in 1 .. Len(FormatMap) : FormatMap[k] \in UpcEan /\ Wants(names, FormatMap[k])}
    <3>1. PICK k \in Retail : \A l \in Retail : k <= l
      <4>1. j \in Retail /\ Retail \in SUBSET Nat
        BY <1>10, <2>1, <2>3
      <4>. QED BY <4>1, LeastNumber
    <3>2. kept(k)
      <4>1. \A l \in 1 .. k - 1 : l \notin Retail /\ l \in 1 .. Len(FormatMap)
        BY <1>2, <3>1
      <4>2. HasReader(FormatMap[k])
        BY <3>1, FormatNames
      <4>. QED BY <3>1, <4>1, <4>2
    <3>3. f \in reports(k)
      BY <1>10, <2>3, <3>1
    <3>. QED BY <3>1, <3>2, <3>3
  <2>. QED BY <2>2, <2>3
<1> HIDE DEF kept, reports
<1>11. \A i \in DOMAIN Readers(names) : Readers(names)[i] \in Held(Readers(names))
  BY DEF Held
<1>12. \A X \in Held(Readers(names)) : \E i \in DOMAIN Readers(names) : Readers(names)[i] = X
  BY DEF Held
<1>13. ASSUME NEW i \in DOMAIN Readers(names), NEW f \in Readers(names)[i]
       PROVE  HasReader(f) /\ Wants(names, f)
  <2>1. PICK j \in {k \in 1 .. Len(FormatMap) : kept(k)} : Readers(names)[i] = reports(j)
    BY <1>8, <1>11
  <2>. QED BY <1>9, <2>1
<1>14. ASSUME NEW f \in Named, HasReader(f), Wants(names, f)
       PROVE  \E i \in DOMAIN Readers(names) : f \in Readers(names)[i]
  <2>1. PICK j \in 1 .. Len(FormatMap) : kept(j) /\ f \in reports(j)
    BY <1>10, <1>14
  <2>2. reports(j) \in Held(Readers(names))
    BY <1>8, <2>1
  <2>. QED BY <1>12, <2>1, <2>2
<1>. QED BY <1>8, <1>13, <1>14

LEMMA HitsSeen ==
  ASSUME NEW r
  PROVE  /\ \A c \in Hits(r) : /\ c \in Image.codes /\ c.whole /\ Across(c, r) /\ Rows(c, r) # {}
                               /\ HasReader(c.sym) /\ Wants(wanted, c.sym)
         /\ Hits(r) = {} => \A c \in Image.codes :
              c.whole /\ Across(c, r) /\ Rows(c, r) # {} => ~(HasReader(c.sym) /\ Wants(wanted, c.sym))
<1> DEFINE rs == Readers(wanted)
           able == {i \in DOMAIN rs : Readable(r, i) # {}}
           least == CHOOSE i \in able : \A j \in able : i <= j
<1>1. Hits(r) = IF able = {} THEN {} ELSE Readable(r, least)
  BY DEF Hits
<1>2. /\ rs \in Seq(SUBSET Named)
      /\ \A i \in DOMAIN rs : \A f \in rs[i] : HasReader(f) /\ Wants(wanted, f)
      /\ \A f \in Named : HasReader(f) /\ Wants(wanted, f) => \E i \in DOMAIN rs : f \in rs[i]
  BY ReadersWant
<1>3. able # {} => least \in able
  <2>1. able \in SUBSET Nat
    <3>1. DOMAIN rs = 1 .. Len(rs)
      BY <1>2
    <3>. QED BY <3>1
  <2>2. able # {} => \E i \in able : \A j \in able : i <= j
    BY <2>1, LeastNumber
  <2>. QED BY <2>2
<1>4. \A i \in able : Readable(r, i) # {}
  OBVIOUS
<1>5. \A i \in DOMAIN rs : Readable(r, i) = {c \in Visible(r) : c.whole /\ c.sym \in rs[i]}
  BY DEF Readable
<1>6. Visible(r) = {c \in Image.codes : Across(c, r) /\ Rows(c, r) # {}}
  BY DEF Visible
<1>7. \A f : HasReader(f) => f \in Named
  BY DEF HasReader
<1>8. able \subseteq DOMAIN rs /\ \A i \in DOMAIN rs : Readable(r, i) # {} => i \in able
  OBVIOUS
<1> HIDE DEF rs, able, least
<1>9. ASSUME NEW c \in Hits(r)
      PROVE  /\ c \in Image.codes /\ c.whole /\ Across(c, r) /\ Rows(c, r) # {}
             /\ HasReader(c.sym) /\ Wants(wanted, c.sym)
  <2>1. least \in DOMAIN rs /\ c \in Readable(r, least)
    BY <1>1, <1>3, <1>8, <1>9
  <2>. QED BY <1>2, <1>5, <1>6, <2>1
<1>10. ASSUME Hits(r) = {}, NEW c \in Image.codes, c.whole, Across(c, r), Rows(c, r) # {},
              HasReader(c.sym), Wants(wanted, c.sym)
       PROVE  FALSE
  <2>1. PICK i \in DOMAIN rs : c.sym \in rs[i]
    <3>1. c.sym \in Named
      BY <1>7, <1>10
    <3>. QED BY <1>2, <1>10, <3>1, Zenon
  <2>2. c \in Readable(r, i)
    BY <1>5, <1>6, <1>10, <2>1
  <2>3. able # {}
    BY <1>8, <2>2
  <2>. QED BY <1>1, <1>3, <1>4, <1>10, <2>3
<1>. QED BY <1>9, <1>10

LEMMA SearchInit == DecoderInit => SearchInv
<1> SUFFICES ASSUME DecoderInit PROVE SearchInv
  OBVIOUS
<1> USE DEF DecoderInit
<1>1. todo \in Seq(Inside) /\ said = Silent /\ at = "upload" /\ upload \in Uploads
  OBVIOUS
<1>2. Checked
  BY DEF Checked
<1>3. Paid
  BY ImageShape, DecoderNumbers DEF Paid
<1>. QED BY <1>1, <1>2, <1>3 DEF SearchInv

\* Every fault of an upload is said.
LEMMA Says ==
  /\ \A s \in Nat \ {0} : \A c : Say(s, c) # Silent
  /\ \A s, c : Say(s, c).status = s
BY DEF Say, Silent

LEMMA FaultsSaid ==
  ASSUME upload \in Uploads
  PROVE  /\ InputFault = Silent \/ InputFault.status \in {400, 413}
         /\ HeaderFault = Silent \/ HeaderFault.status \in {400, 413, 500}
         /\ PixelsFault = Silent \/ PixelsFault.status \in {400, 413, 500}
         /\ \A names : FilterFault(names) = Silent \/ FilterFault(names).status \in {400, 501}
         /\ Cancelled.status = 500 /\ Cancelled # Silent
<1>1. InputFault = Silent \/ InputFault.status \in {400, 413}
  BY DEF InputFault, Say
<1>2. Cancelled.status = 500 /\ Cancelled # Silent
  BY DEF Cancelled, Say, Silent
<1>3. HeaderFault = Silent \/ HeaderFault.status \in {400, 413, 500}
  BY <1>2 DEF HeaderFault, Say
<1>4. PixelsFault = Silent \/ PixelsFault.status \in {400, 413, 500}
  BY <1>2, ImageShape DEF PixelsFault, Say
<1>5. \A names : FilterFault(names) = Silent \/ FilterFault(names).status \in {400, 501}
  BY DEF FilterFault, Say
<1>. QED BY <1>1, <1>2, <1>3, <1>4, <1>5

LEMMA HeaderBounds ==
  ASSUME upload \in Uploads, HeaderFault = Silent
  PROVE  Image.bytes \in 1 .. MaxBody /\ Image.declared \in 1 .. MaxPixels
<1>1. \A c : Say(400, c) # Silent /\ Say(413, c) # Silent /\ Say(500, c) # Silent
  BY Says
<1>2. Image.bytes \in Nat /\ Image.declared \in Nat /\ MaxBody \in Nat /\ MaxPixels \in Nat
  BY ImageShape, DecoderNumbers
<1>3. Cancelled # Silent
  BY <1>1 DEF Cancelled
<1>. QED BY <1>1, <1>2, <1>3 DEF HeaderFault

LEMMA PixelBounds ==
  ASSUME upload \in Uploads, PixelsFault = Silent
  PROVE  Image.w * Image.h <= MaxPixels
<1>1. \A c : Say(400, c) # Silent /\ Say(413, c) # Silent /\ Say(500, c) # Silent
  BY Says
<1>2. Image.corrupt \in BOOLEAN
  BY ImageShape
<1>3. Cancelled # Silent
  BY <1>1 DEF Cancelled
<1>4. Image.w * Image.h \in Int /\ MaxPixels \in Int
  BY ImageShape, DecoderNumbers
<1> DEFINE px == Image.w * Image.h
<1>5. PixelsFault = CASE Image.corrupt -> Say(400, "INVALID_VALUE")
                      [] ~Image.corrupt /\ cancelled -> Cancelled
                      [] OTHER -> IF px > MaxPixels THEN Say(413, "CANVAS_TOO_LARGE") ELSE Silent
  BY DEF PixelsFault
<1> HIDE DEF px
<1>6. ~(px > MaxPixels)
  BY <1>1, <1>2, <1>3, <1>5
<1>. QED BY <1>4, <1>6 DEF px

\* A scan of the walk: stopped by a cancellation, in vain, or a hit.
LEMMA WalkScans ==
  ASSUME Walk, ~Spent(Head(todo))
  PROVE  LET r == Head(todo)
         IN  \/ Answer(Cancelled) /\ UNCHANGED <<todo, found>>
             \/ Hits(r) = {} /\ todo' = Tail(todo) /\ UNCHANGED <<at, said, found>>
             \/ /\ UNCHANGED <<at, said>>
                /\ \E c \in Hits(r) : \E row \in Rows(c, r) :
                     LET b == Box(c, row, r)
                         subs == [i \in DOMAIN Strips(b, r) |-> Crop(Strips(b, r)[i], r)]
                     IN  /\ todo' = subs \o Tail(todo)
                         /\ found' = IF Seen(c) THEN found ELSE Append(found, Result(c, b, r))
BY Zenon DEF Walk

\* What a step of the walk leaves to do lies in the image.
LEMMA SubsInside ==
  ASSUME upload \in Uploads, NEW r \in Inside, r.depth <= MaxDepth,
         NEW c \in Image.codes, Across(c, r), NEW row \in Rows(c, r)
  PROVE  LET b == Box(c, row, r)
             subs == [i \in DOMAIN Strips(b, r) |-> Crop(Strips(b, r)[i], r)]
         IN  /\ subs \in Seq(Inside)
             /\ \A e \in Image.codes :
                  Within(e, r) /\ Large(e) /\ Apart(c, e) => \E q \in Held(subs) : Within(e, q)
<1> DEFINE b == Box(c, row, r)
           t == Strips(b, r)
           subs == [i \in DOMAIN t |-> Crop(t[i], r)]
<1>1. /\ t \in Seq(StripsOf(r))
      /\ \A s \in Held(t) : s.own > MinDimension
      /\ \A e \in Image.codes :
           Within(e, r) /\ Large(e) /\ Apart(c, e) => \E s \in Held(t) : Within(e, Crop(s, r))
  BY StripsHold
<1> HIDE DEF t, b
<1>2. /\ Len(t) \in Nat /\ DOMAIN t = 1 .. Len(t)
      /\ \A i \in 1 .. Len(t) : t[i] \in StripsOf(r) /\ t[i] \in Held(t)
  BY <1>1 DEF Held
<1>3. \A i \in 1 .. Len(t) : Crop(t[i], r) \in Inside
  BY <1>1, <1>2, CropInside
<1>4. subs \in Seq(Inside) /\ DOMAIN subs = 1 .. Len(t) /\ \A i \in 1 .. Len(t) : subs[i] = Crop(t[i], r)
  BY <1>2, <1>3
<1>5. \A s \in Held(t) : Crop(s, r) \in Held(subs)
  <2> HIDE DEF subs
  <2>. QED BY <1>2, <1>4 DEF Held
<1>6. \A e \in Image.codes :
        Within(e, r) /\ Large(e) /\ Apart(c, e) => \E q \in Held(subs) : Within(e, q)
  <2> HIDE DEF subs
  <2>. QED BY <1>1, <1>5
<1>. QED BY <1>4, <1>6 DEF t, b, subs

LEMMA SearchStep == SearchInv /\ [DecoderNext]_decoderVars => SearchInv'
<1> SUFFICES ASSUME SearchInv, [DecoderNext]_decoderVars PROVE SearchInv'
  OBVIOUS
<1>0. upload \in Uploads /\ budget \in Nat /\ scans \in Nat /\ upload.multi \in BOOLEAN
      /\ ScanBudget \in Nat \ {0} /\ todo \in Seq(Inside)
  BY ImageShape, DecoderNumbers DEF SearchInv, Paid
<1>1. CASE /\ UNCHANGED <<upload, todo>>
           /\ UNCHANGED <<budget, scans, found>>
           /\ at' \in {"upload", "header", "pixels", "formats", "scan", "answered"}
           /\ (at' = "answered") <=> (said' # Silent)
           /\ Checked'
           /\ at \in {"upload", "header", "pixels", "formats"} \/ at' = at \/ at' = "answered"
           /\ at' \notin {"scan"} \/ at = "scan"
           /\ at \in {"scan", "answered"} => at' \in {at, "answered"}
  <2>1. Inside' = Inside
    BY <1>1 DEF Inside, Image
  <2>2. Paid'
    BY <1>1 DEF SearchInv, Paid
  <2>. QED BY <1>1, <2>1, <2>2 DEF SearchInv
<1>2. CASE ReadInput
  <2>1. Checked'
    BY <1>2 DEF ReadInput, Answer, SearchInv, Checked, Image
  <2>2. /\ at' \in {"header", "answered"}
        /\ (at' = "answered") <=> (said' # Silent)
    BY <1>2 DEF ReadInput, Answer, SearchInv
  <2>. QED BY <1>1, <1>2, <2>1, <2>2 DEF ReadInput
<1>3. CASE LoadHeader
  <2>1. Checked'
    BY <1>0, <1>3, HeaderBounds DEF LoadHeader, Answer, SearchInv, Checked, Image
  <2>2. /\ at' \in {"pixels", "answered"}
        /\ (at' = "answered") <=> (said' # Silent)
    BY <1>3 DEF LoadHeader, Answer, SearchInv
  <2>. QED BY <1>1, <1>3, <2>1, <2>2 DEF LoadHeader
<1>4. CASE LoadPixels
  <2>1. Checked'
    <3>1. PixelsFault = Silent => Image.w * Image.h <= MaxPixels
      BY <1>0, PixelBounds
    <3>2. Image' = Image /\ scans' = scans /\ scans = 0
          /\ at = "pixels" /\ at' \in {"formats", "answered"}
          /\ (at' = "formats" => PixelsFault = Silent)
      BY <1>4 DEF LoadPixels, Answer, Image, SearchInv, Paid
    <3>3. Image.bytes \in 1 .. MaxBody /\ Image.declared \in 1 .. MaxPixels
      BY <3>2 DEF SearchInv, Checked
    <3>. QED BY <3>1, <3>2, <3>3 DEF Checked
  <2>2. /\ at' \in {"formats", "answered"}
        /\ (at' = "answered") <=> (said' # Silent)
    BY <1>4 DEF LoadPixels, Answer, SearchInv
  <2>. QED BY <1>1, <1>4, <2>1, <2>2 DEF LoadPixels
<1>5. CASE Filter
  <2>1. Checked'
    BY <1>5 DEF Filter, Answer, SearchInv, Checked, Image
  <2>2. /\ at' \in {"scan", "answered"}
        /\ (at' = "answered") <=> (said' # Silent)
    BY <1>0, <1>5, FaultsSaid DEF Filter, Answer, SearchInv
  <2>3. todo' \in Seq(Inside)
    <3>1. Whole \in Inside
      <4>1. Image.w \in Nat \ {0} /\ Image.h \in Nat \ {0} /\ 0 \in 0 .. MaxDepth + 1
        BY <1>0, ImageShape, DecoderNumbers
      <4>2. 0 + Image.w <= Image.w /\ 0 + Image.h <= Image.h
        BY <4>1
      <4>. QED BY <4>1, <4>2 DEF Whole, Inside
    <3>2. <<Whole>> \in Seq(Inside)
      BY <3>1
    <3>. QED BY <1>0, <1>5, <3>2 DEF Filter
  <2>4. Inside' = Inside
    BY <1>5 DEF Filter, Inside, Image
  <2>5. Paid'
    BY <1>0, <1>5, <2>2 DEF Filter, Paid, SearchInv
  <2>. QED BY <1>0, <1>5, <2>1, <2>2, <2>3, <2>4, <2>5 DEF SearchInv, Filter
<1>6. CASE Walk
  <2> DEFINE r == Head(todo)
  <2>1. r \in Inside /\ Tail(todo) \in Seq(Inside) /\ at = "scan" /\ upload.multi /\ todo # <<>>
    BY <1>0, <1>6, HeldIn DEF Walk
  <2>2. UNCHANGED upload /\ UNCHANGED inflated /\ Inside' = Inside /\ Image' = Image
    BY <1>6 DEF Walk, Inside, Image
  <2>3. Checked'
    BY <2>1, <2>2 DEF SearchInv, Checked
  <2>4. CASE Spent(r)
    <3>1. todo' = Tail(todo) /\ UNCHANGED <<at, said, budget, scans>>
      BY <1>6, <2>4 DEF Walk
    <3>2. Paid'
      BY <1>0, <2>1, <2>2, <3>1 DEF SearchInv, Paid
    <3>. QED BY <2>1, <2>2, <2>3, <3>1, <3>2 DEF SearchInv
  <2>5. CASE ~Spent(r)
    <3>1. budget' = budget - 1 /\ scans' = scans + 1 /\ budget > 0
          /\ r.depth <= MaxDepth
      <4>1. r.depth \in Nat /\ MaxDepth \in Nat
        BY <2>1, DecoderNumbers, SMTT(30) DEF Inside
      <4>. QED BY <1>0, <1>6, <2>5, <4>1 DEF Walk, Spent
    <3>2. at' \in {"scan", "answered"} /\ ((at' = "answered") <=> (said' # Silent))
      <4>1. Cancelled # Silent /\ ((at = "answered") <=> (said # Silent))
        BY <1>0, FaultsSaid DEF SearchInv
      <4>2. (at' = at /\ said' = said) \/ (at' = "answered" /\ said' = Cancelled)
        BY <1>6, <2>5, WalkScans DEF Answer
      <4>. QED BY <2>1, <4>1, <4>2
    <3>3. Paid'
      BY <1>0, <2>1, <2>2, <3>1, <3>2 DEF SearchInv, Paid
    <3>4. todo' \in Seq(Inside)
      <4>1. CASE todo' = todo \/ todo' = Tail(todo)
        BY <1>0, <2>1, <4>1
      <4>2. ASSUME NEW c \in Hits(r), NEW row \in Rows(c, r),
                   LET b == Box(c, row, r)
                       subs == [i \in DOMAIN Strips(b, r) |-> Crop(Strips(b, r)[i], r)]
                   IN  todo' = subs \o Tail(todo)
            PROVE  todo' \in Seq(Inside)
        <5> DEFINE b == Box(c, row, r)
                   subs == [i \in DOMAIN Strips(b, r) |-> Crop(Strips(b, r)[i], r)]
        <5>1. c \in Image.codes /\ Across(c, r)
          BY HitsSeen
        <5>2. subs \in Seq(Inside)
          BY <1>0, <2>1, <3>1, <5>1, SubsInside
        <5>3. todo' = subs \o Tail(todo)
          BY <4>2
        <5> HIDE DEF subs
        <5>. QED BY <2>1, <5>2, <5>3
      <4>. QED BY <1>6, <2>5, <4>1, <4>2 DEF Walk
    <3>. QED BY <2>2, <2>3, <3>2, <3>3, <3>4, <1>0 DEF SearchInv
  <2>. QED BY <2>4, <2>5
<1>7. CASE WalkEnds
  <2>1. at' = "answered" /\ said' # Silent /\ Checked'
    BY <1>7, Says DEF WalkEnds, Answer, SearchInv, Checked, Image
  <2>. QED BY <1>1, <1>7, <2>1 DEF WalkEnds
<1>8. CASE First
  <2>1. at' = "answered" /\ said' # Silent
    BY <1>0, <1>8, Says, FaultsSaid DEF First, Answer
  <2>2. UNCHANGED <<upload, inflated, todo, budget>> /\ scans' = scans + 1 /\ at = "scan" /\ ~upload.multi
    BY <1>8 DEF First
  <2>3. Checked' /\ Inside' = Inside
    BY <2>1, <2>2 DEF SearchInv, Checked, Inside, Image
  <2>4. Paid'
    BY <1>0, <2>1, <2>2 DEF SearchInv, Paid
  <2>. QED BY <1>0, <2>1, <2>2, <2>3, <2>4 DEF SearchInv
<1>9. CASE Cancel
  <2>1. Checked'
    BY <1>9 DEF Cancel, SearchInv, Checked, Image
  <2>. QED BY <1>1, <1>9, <2>1 DEF Cancel, SearchInv
<1>10. CASE UNCHANGED decoderVars
  <2>1. Checked'
    BY <1>10 DEF decoderVars, SearchInv, Checked, Image
  <2>. QED BY <1>1, <1>10, <2>1 DEF decoderVars, SearchInv
<1>. QED BY <1>2, <1>3, <1>4, <1>5, <1>6, <1>7, <1>8, <1>9, <1>10 DEF DecoderNext, DecoderStep

LEMMA SearchIsBounded == SearchInv => SearchBounded /\ DecoderTypeOK
<1> SUFFICES ASSUME SearchInv PROVE SearchBounded /\ DecoderTypeOK
  OBVIOUS
<1>1. BoundedBeforePixels
  BY DEF SearchInv, Checked, BoundedBeforePixels, Paid
<1>2. \A i \in DOMAIN todo : todo[i] \in Inside
  BY DEF SearchInv
<1>3. scans <= ScanBudget
  BY ImageShape, DecoderNumbers DEF SearchInv, Paid
<1>4. BoundedSearch
  <2>1. Image.w \in Nat /\ Image.h \in Nat
    BY ImageShape DEF SearchInv
  <2>. QED BY <1>2, <1>3, <2>1 DEF BoundedSearch, Inside
<1>5. DecoderTypeOK
  BY <1>2 DEF SearchInv, DecoderTypeOK, Inside
<1>. QED BY <1>1, <1>4, <1>5 DEF SearchBounded

\* Which names a report may have, and what it must be.
Reports == [sym : {c.sym : c \in Image.codes}, data : {c.data : c \in Image.codes},
            points : SUBSET (Int \X Int)]
TrueReport(f) ==
  \E c \in Image.codes :
    /\ c.sym = f.sym /\ c.data = f.data /\ c.whole
    /\ Wants(upload.wanted, c.sym)
    /\ \A p \in f.points : /\ c.x <= p[1] /\ p[1] <= c.x + c.w
                           /\ c.y <= p[2] /\ p[2] <= c.y + c.h

ReportInv ==
  /\ at = "scan" => wanted = upload.wanted
  /\ found \in Seq(Reports)
  /\ \A i \in DOMAIN found : TrueReport(found[i])
  /\ NoDuplicates

\* A hit is reported where it is.
LEMMA HitIsTrue ==
  ASSUME upload \in Uploads, wanted = upload.wanted, NEW r \in Inside,
         NEW c \in Hits(r), NEW row \in Rows(c, r)
  PROVE  LET f == Result(c, Box(c, row, r), r)
         IN  f \in Reports /\ TrueReport(f) /\ f.sym = c.sym /\ f.data = c.data
<1> DEFINE b == Box(c, row, r)
           f == Result(c, b, r)
           near == <<b.x + r.x, b.y + r.y>>
           far == <<b.x + b.w + r.x, b.y + b.h + r.y>>
<1>1. c \in Image.codes /\ c.whole /\ Across(c, r) /\ Wants(upload.wanted, c.sym)
  BY HitsSeen
<1>2. /\ b.x = c.x - r.x /\ b.y = row - r.y /\ b.w = c.w
      /\ c.linear => b.h = 0
      /\ ~c.linear => b.h = c.h
      /\ b.h \in Nat
  BY <1>1, BoxInside
<1>3. /\ row \in Nat /\ c.y <= row /\ row < c.y + c.h
      /\ ~c.linear => row = c.y
  BY <1>1, RowShape
<1>4. /\ c.x \in Nat /\ c.w \in Nat \ {0} /\ c.y \in Nat /\ c.h \in Nat \ {0}
      /\ c.linear \in BOOLEAN
  BY <1>1, ImageShape
<1>5. r.x \in Nat /\ r.y \in Nat
  BY DEF Inside
<1>6. f = [sym |-> c.sym, data |-> c.data, points |-> {near, far}]
  BY DEF Result
<1> HIDE DEF b
<1>7. /\ b.x + r.x = c.x /\ b.y + r.y = row /\ b.x + b.w + r.x = c.x + c.w
      /\ c.linear => b.y + b.h + r.y = row
      /\ ~c.linear => b.y + b.h + r.y = c.y + c.h
  BY <1>2, <1>3, <1>4, <1>5
<1>8. /\ near \in Int \X Int /\ near[1] = c.x /\ near[2] = row
      /\ far \in Int \X Int /\ far[1] = c.x + c.w /\ far[2] = b.y + b.h + r.y
  BY <1>3, <1>4, <1>7
<1>9. c.y <= far[2] /\ far[2] <= c.y + c.h
  <2>1. CASE c.linear
    BY <1>3, <1>4, <1>7, <1>8, <2>1
  <2>2. CASE ~c.linear
    BY <1>4, <1>7, <1>8, <2>2
  <2>. QED BY <1>4, <2>1, <2>2
<1> HIDE DEF near, far, f
<1>10. f \in Reports
  BY <1>1, <1>6, <1>8 DEF Reports
<1>11. f.sym = c.sym /\ f.data = c.data /\ f.points = {near, far}
  BY <1>6
<1>12. \A p \in {near, far} : /\ c.x <= p[1] /\ p[1] <= c.x + c.w
                              /\ c.y <= p[2] /\ p[2] <= c.y + c.h
  BY <1>3, <1>4, <1>8, <1>9
<1>13. TrueReport(f)
  BY <1>1, <1>11, <1>12 DEF TrueReport
<1>. QED BY <1>10, <1>11, <1>13 DEF f, b

LEMMA ReportInit == DecoderInit => ReportInv
<1> SUFFICES ASSUME DecoderInit PROVE ReportInv
  OBVIOUS
<1>1. found = <<>> /\ at # "scan"
  BY DEF DecoderInit
<1>2. <<>> \in Seq(Reports) /\ DOMAIN <<>> = {}
  OBVIOUS
<1>. QED BY <1>1, <1>2 DEF ReportInv, NoDuplicates

LEMMA ReportStep == SearchInv /\ ReportInv /\ [DecoderNext]_decoderVars => ReportInv'
<1> SUFFICES ASSUME SearchInv, ReportInv, [DecoderNext]_decoderVars PROVE ReportInv'
  OBVIOUS
<1>0. upload \in Uploads /\ todo \in Seq(Inside) /\ found \in Seq(Reports)
  BY DEF SearchInv, ReportInv
<1>1. CASE UNCHANGED <<upload, found>> /\ (at' = "scan" => wanted' = upload.wanted)
  <2>1. Reports' = Reports /\ \A f : TrueReport(f)' <=> TrueReport(f)
    BY <1>1 DEF Reports, TrueReport, Image, Wants
  <2>2. NoDuplicates'
    BY <1>1 DEF ReportInv, NoDuplicates
  <2>. QED BY <1>1, <2>1, <2>2 DEF ReportInv
<1>2. CASE ReadInput \/ LoadHeader \/ LoadPixels \/ WalkEnds \/ Cancel \/ UNCHANGED decoderVars
  BY <1>1, <1>2 DEF ReadInput, LoadHeader, LoadPixels, WalkEnds, Cancel, decoderVars, Answer, ReportInv
<1>3. CASE Filter
  BY <1>1, <1>3 DEF Filter, Answer
<1>4. ASSUME NEW r \in Inside, NEW c \in Hits(r), NEW row \in Rows(c, r), at = "scan",
             found' = Append(found, Result(c, Box(c, row, r), r)), ~Seen(c),
             UNCHANGED <<upload, wanted>>
      PROVE  ReportInv'
  <2> DEFINE f == Result(c, Box(c, row, r), r)
  <2>1. f \in Reports /\ TrueReport(f) /\ f.sym = c.sym /\ f.data = c.data
    BY <1>0, <1>4, HitIsTrue DEF ReportInv
  <2>2. found' = Append(found, f)
    BY <1>4
  <2> HIDE DEF f
  <2>3. /\ found' \in Seq(Reports) /\ Len(found) \in Nat
        /\ DOMAIN found = 1 .. Len(found) /\ DOMAIN found' = 1 .. Len(found) + 1
        /\ \A i \in 1 .. Len(found) : found'[i] = found[i]
        /\ found'[Len(found) + 1] = f
    BY <1>0, <2>1, <2>2
  <2>4. Reports' = Reports /\ \A g : TrueReport(g)' <=> TrueReport(g)
    BY <1>4 DEF Reports, TrueReport, Image, Wants
  <2>5. \A i \in 1 .. Len(found) + 1 : i = Len(found) + 1 \/ i \in 1 .. Len(found)
    BY <2>3
  <2>6. \A i \in DOMAIN found' : TrueReport(found'[i])
    BY <2>1, <2>3, <2>5 DEF ReportInv
  <2>7. \A i \in 1 .. Len(found) : ~(found[i].sym = f.sym /\ found[i].data = f.data)
    BY <1>4, <2>1, <2>3 DEF Seen
  <2>8. NoDuplicates'
    <3>1. \A i, j \in 1 .. Len(found) :
            found[i].sym = found[j].sym /\ found[i].data = found[j].data => i = j
      BY <2>3 DEF ReportInv, NoDuplicates
    <3>2. \A i, j \in 1 .. Len(found) + 1 :
            found'[i].sym = found'[j].sym /\ found'[i].data = found'[j].data => i = j
      BY <2>3, <2>5, <2>7, <3>1
    <3>. QED BY <2>3, <3>2 DEF NoDuplicates
  <2>. QED BY <1>4, <2>3, <2>4, <2>6, <2>8 DEF ReportInv
<1>5. CASE Walk
  <2> DEFINE r == Head(todo)
  <2>1. r \in Inside /\ at = "scan" /\ UNCHANGED <<upload, wanted>>
    BY <1>0, <1>5, HeldIn DEF Walk
  <2>2. CASE UNCHANGED found
    BY <1>1, <2>1, <2>2 DEF ReportInv
  <2>3. CASE \E c \in Hits(r) : \E row \in Rows(c, r) :
               ~Seen(c) /\ found' = Append(found, Result(c, Box(c, row, r), r))
    <3> HIDE DEF r
    <3>. QED BY <1>4, <2>1, <2>3
  <2>4. CASE Spent(r)
    <3>1. UNCHANGED found
      BY <1>5, <2>4 DEF Walk
    <3>. QED BY <2>2, <3>1
  <2>5. CASE ~Spent(r)
    <3>1. \/ UNCHANGED found
          \/ \E c \in Hits(r) : \E row \in Rows(c, r) :
               ~Seen(c) /\ found' = Append(found, Result(c, Box(c, row, r), r))
      BY <1>5, <2>5, WalkScans, Zenon
    <3>. QED BY <2>2, <2>3, <3>1
  <2>. QED BY <2>4, <2>5
<1>6. CASE First
  <2>1. Whole \in Inside
    <3>1. Image.w \in Nat \ {0} /\ Image.h \in Nat \ {0} /\ 0 \in 0 .. MaxDepth + 1
      BY <1>0, ImageShape, DecoderNumbers
    <3>2. 0 + Image.w <= Image.w /\ 0 + Image.h <= Image.h
      BY <3>1
    <3>. QED BY <3>1, <3>2 DEF Whole, Inside
  <2>2. at = "scan" /\ at' = "answered" /\ UNCHANGED <<upload, wanted>>
    BY <1>6 DEF First, Answer
  <2>3. CASE UNCHANGED found
    BY <1>1, <2>2, <2>3
  <2>4. ASSUME NEW c \in Hits(Whole), NEW row \in Rows(c, Whole),
               found' = <<Result(c, Box(c, row, Whole), Whole)>>
        PROVE  ReportInv'
    <3> DEFINE f == Result(c, Box(c, row, Whole), Whole)
    <3>1. f \in Reports /\ TrueReport(f)
      BY <1>0, <2>1, <2>2, HitIsTrue DEF ReportInv
    <3>2. found' = <<f>>
      BY <2>4
    <3> HIDE DEF f
    <3>3. found' \in Seq(Reports) /\ DOMAIN found' = {1} /\ found'[1] = f
      BY <3>1, <3>2
    <3>4. Reports' = Reports /\ \A g : TrueReport(g)' <=> TrueReport(g)
      BY <2>2 DEF Reports, TrueReport, Image, Wants
    <3>5. NoDuplicates'
      BY <3>3 DEF NoDuplicates
    <3>6. \A i \in DOMAIN found' : TrueReport(found'[i])
      BY <3>1, <3>3
    <3>. QED BY <2>2, <3>3, <3>4, <3>5, <3>6 DEF ReportInv
  <2>. QED BY <1>6, <2>3, <2>4 DEF First
<1>. QED BY <1>2, <1>3, <1>5, <1>6 DEF DecoderNext, DecoderStep

LEMMA ReportIsTrue == ReportInv => PointsTrue /\ NoDuplicates
BY DEF ReportInv, PointsTrue, TrueReport, Wants

\* A code the caller asked for and a reader can read.
Reportable(c) == c.whole /\ HasReader(c.sym) /\ Wants(upload.wanted, c.sym)

\* What has not been reported is still ahead: all of it lies in a rectangle
\* the walk has yet to scan.
RemainInv ==
  /\ (at = "scan" /\ upload.multi /\ ~pruned) =>
       \A c \in Image.codes : Reportable(c) => Seen(c) \/ \E q \in Held(todo) : Within(c, q)
  /\ AllFound

LEMMA SeenStays ==
  ASSUME found \in Seq(Reports), NEW f \in Reports, NEW c, Seen(c),
         found' = found \/ found' = Append(found, f)
  PROVE  Seen(c)'
<1>1. PICK i \in DOMAIN found : found[i].sym = c.sym /\ found[i].data = c.data
  BY DEF Seen
<1>2. CASE found' = found
  BY <1>1, <1>2 DEF Seen
<1>3. CASE found' = Append(found, f)
  <2>1. i \in DOMAIN found' /\ found'[i] = found[i]
    BY <1>1, <1>3
  <2>. QED BY <1>1, <2>1 DEF Seen
<1>. QED BY <1>2, <1>3

LEMMA AppendedSeen ==
  ASSUME found \in Seq(Reports), NEW f \in Reports, NEW c, f.sym = c.sym, f.data = c.data,
         found' = Append(found, f)
  PROVE  Seen(c)'
<1>1. Len(found) + 1 \in DOMAIN found' /\ found'[Len(found) + 1] = f
  OBVIOUS
<1>. QED BY <1>1 DEF Seen

\* One rectangle scanned: of what it held, the hit is reported and the rest
\* lies in the strips.
LEMMA HitLeavesRest ==
  ASSUME SeparateCodes, SearchInv, ReportInv, RemainInv, at = "scan", upload.multi, ~pruned,
         todo # <<>>, UNCHANGED upload, Head(todo).depth <= MaxDepth,
         NEW c \in Hits(Head(todo)), NEW row \in Rows(c, Head(todo)),
         LET r == Head(todo)
             b == Box(c, row, r)
             subs == [i \in DOMAIN Strips(b, r) |-> Crop(Strips(b, r)[i], r)]
         IN  /\ todo' = subs \o Tail(todo)
             /\ found' = IF Seen(c) THEN found ELSE Append(found, Result(c, b, r)),
         NEW e \in Image.codes, Reportable(e)
  PROVE  Seen(e)' \/ \E q \in Held(todo') : Within(e, q)
<1> DEFINE r == Head(todo)
           b == Box(c, row, r)
           subs == [i \in DOMAIN Strips(b, r) |-> Crop(Strips(b, r)[i], r)]
           f == Result(c, b, r)
<1>1. /\ upload \in Uploads /\ r \in Inside /\ Tail(todo) \in Seq(Inside)
      /\ Held(todo) = {r} \cup Held(Tail(todo))
      /\ found \in Seq(Reports) /\ wanted = upload.wanted
  BY HeldIn DEF SearchInv, ReportInv
<1>2. c \in Image.codes /\ Across(c, r)
  BY HitsSeen
<1>3. /\ subs \in Seq(Inside)
      /\ Within(e, r) /\ Large(e) /\ Apart(c, e) => \E q \in Held(subs) : Within(e, q)
  BY <1>1, <1>2, SubsInside
<1>4. f \in Reports /\ f.sym = c.sym /\ f.data = c.data
  BY <1>1, HitIsTrue
<1>5. todo' = subs \o Tail(todo) /\ found' = IF Seen(c) THEN found ELSE Append(found, f)
  OBVIOUS
<1> HIDE DEF r, b, subs, f
<1>6. Held(todo') = Held(subs) \cup Held(Tail(todo))
  <2> DEFINE rest == Tail(todo)
  <2>1. rest \in Seq(Inside) /\ subs \in Seq(Inside) /\ todo' = subs \o rest
    BY <1>1, <1>3, <1>5
  <2> HIDE DEF rest
  <2>2. Held(subs \o rest) = Held(subs) \cup Held(rest)
    BY <2>1, HeldTogether
  <2>. QED BY <2>1, <2>2 DEF rest
<1>7. CASE Seen(e)
  <2>1. found' = found \/ found' = Append(found, f)
    BY <1>5
  <2>. QED BY <1>1, <1>4, <1>7, <2>1, SeenStays
<1>8. CASE e = c
  <2>1. CASE Seen(c)
    BY <1>7, <1>8, <2>1
  <2>2. CASE ~Seen(c)
    BY <1>1, <1>4, <1>5, <1>8, <2>2, AppendedSeen
  <2>. QED BY <2>1, <2>2
<1>9. CASE e # c /\ ~Seen(e)
  <2>1. PICK q \in Held(todo) : Within(e, q)
    BY <1>9 DEF RemainInv
  <2>2. CASE q \in Held(Tail(todo))
    BY <1>6, <2>1, <2>2
  <2>3. CASE q = r
    <3>1. Large(e) /\ Apart(c, e)
      BY <1>1, <1>2, <1>9 DEF SeparateCodes, Image
    <3>2. \E p \in Held(subs) : Within(e, p)
      BY <1>3, <2>1, <2>3, <3>1
    <3>. QED BY <1>6, <3>2
  <2>. QED BY <1>1, <2>1, <2>2, <2>3
<1>. QED BY <1>7, <1>8, <1>9

LEMMA RemainInit == DecoderInit => RemainInv
BY DEF DecoderInit, RemainInv, AllFound

LEMMA RemainStep ==
  ASSUME SeparateCodes, SearchInv, ReportInv, RemainInv, [DecoderNext]_decoderVars
  PROVE  RemainInv'
<1>0. upload \in Uploads /\ todo \in Seq(Inside)
  BY DEF SearchInv
<1>1. CASE /\ UNCHANGED <<upload, todo, pruned, found>>
           /\ at' = "scan" => at = "scan"
           /\ \/ at' = "answered" => said'.status \notin {200, 404}
              \/ UNCHANGED <<at, said>>
  <2>1. /\ Image' = Image /\ \A c : (Seen(c)' <=> Seen(c)) /\ (Reportable(c)' <=> Reportable(c))
        /\ \A c, q : Within(c, q)' <=> Within(c, q)
    BY <1>1 DEF Image, Seen, Reportable, Wants, Within, Across
  <2>2. AllFound'
    BY <1>1, <2>1 DEF RemainInv, AllFound
  <2>. QED BY <1>1, <2>1, <2>2 DEF RemainInv
<1>2. CASE ReadInput \/ LoadHeader \/ LoadPixels
  <2>1. at' # "scan" /\ UNCHANGED <<upload, todo, pruned, found>>
    BY <1>2 DEF ReadInput, LoadHeader, LoadPixels, Answer, SearchInv
  <2>2. at' = "answered" => said'.status \notin {200, 404}
    BY <1>0, <1>2, FaultsSaid DEF ReadInput, LoadHeader, LoadPixels, Answer
  <2>. QED BY <1>1, <2>1, <2>2
<1>3. CASE Filter
  <2>1. CASE at' = "answered"
    <3>1. said'.status \notin {200, 404} /\ UNCHANGED <<upload, pruned, found, todo>>
      BY <1>0, <1>3, <2>1, FaultsSaid DEF Filter, Answer
    <3>. QED BY <1>1, <2>1, <3>1
  <2>2. CASE at' = "scan"
    <3>1. todo' = <<Whole>> /\ UNCHANGED upload
      BY <1>3, <2>2 DEF Filter, Answer
    <3>2. Held(todo') = {Whole}
      <4>1. DOMAIN <<Whole>> = {1} /\ <<Whole>>[1] = Whole
        OBVIOUS
      <4>. QED BY <3>1, <4>1 DEF Held
    <3>3. \A c \in Image.codes : Within(c, Whole)
      BY <1>0, ImageShape DEF Within, Across, Whole
    <3>4. Image' = Image /\ AllFound'
      BY <2>2, <3>1 DEF Image, AllFound
    <3>. QED BY <3>2, <3>3, <3>4 DEF RemainInv
  <2>. QED BY <1>3, <2>1, <2>2 DEF Filter, Answer
<1>4. CASE Walk
  <2> DEFINE r == Head(todo)
  <2>1. /\ r \in Inside /\ at = "scan" /\ UNCHANGED upload /\ upload.multi /\ todo # <<>>
        /\ Held(todo) = {r} \cup Held(Tail(todo))
    BY <1>0, <1>4, HeldIn DEF Walk
  <2>2. CASE Spent(r)
    <3>1. pruned' = TRUE
      BY <1>4, <2>2 DEF Walk
    <3>. QED BY <3>1 DEF RemainInv, AllFound
  <2>3. CASE ~Spent(r)
    <3>0. UNCHANGED pruned
      BY <1>4, <2>3 DEF Walk
    <3>1. CASE Answer(Cancelled) /\ UNCHANGED <<todo, found>>
      BY <1>0, <1>1, <2>1, <3>0, <3>1, FaultsSaid DEF Answer
    <3>2. CASE Hits(r) = {} /\ todo' = Tail(todo) /\ UNCHANGED <<at, said, found>>
      <4>1. AllFound'
        BY <2>1, <3>2 DEF AllFound
      <4>2. ASSUME ~pruned, NEW c \in Image.codes, Reportable(c), ~Seen(c)
            PROVE  \E q \in Held(Tail(todo)) : Within(c, q)
        <5>1. PICK q \in Held(todo) : Within(c, q)
          BY <2>1, <4>2 DEF RemainInv
        <5>2. ~Within(c, r)
          <6> SUFFICES ASSUME Within(c, r) PROVE FALSE
            OBVIOUS
          <6>1. Rows(c, r) # {}
            <7>1. /\ c.y \in Nat /\ c.h \in Nat \ {0} /\ c.linear \in BOOLEAN
                  /\ r.y \in Nat /\ r.h \in Nat \ {0}
              BY <1>0, <2>1, ImageShape DEF Inside
            <7>2. c.y \in Rows(c, r)
              BY <7>1 DEF Rows, Within
            <7>. QED BY <7>2
          <6>2. c.whole /\ HasReader(c.sym) /\ Wants(wanted, c.sym) /\ Across(c, r)
            BY <2>1, <4>2 DEF Reportable, ReportInv, Within
          <6>. QED BY <3>2, <6>1, <6>2, HitsSeen
        <5>. QED BY <2>1, <5>1, <5>2
      <4>3. /\ Image' = Image /\ \A c : (Seen(c)' <=> Seen(c)) /\ (Reportable(c)' <=> Reportable(c))
            /\ \A c, q : Within(c, q)' <=> Within(c, q)
        BY <2>1, <3>2 DEF Image, Seen, Reportable, Wants, Within, Across
      <4>. QED BY <3>0, <3>2, <4>1, <4>2, <4>3 DEF RemainInv
    <3>3. ASSUME UNCHANGED <<at, said>>,
                 NEW c \in Hits(Head(todo)), NEW row \in Rows(c, Head(todo)),
                 LET b == Box(c, row, Head(todo))
                     subs == [i \in DOMAIN Strips(b, Head(todo)) |-> Crop(Strips(b, Head(todo))[i], Head(todo))]
                 IN  /\ todo' = subs \o Tail(todo)
                     /\ found' = IF Seen(c) THEN found ELSE Append(found, Result(c, b, Head(todo)))
          PROVE  RemainInv'
      <4>1. AllFound'
        BY <2>1, <3>3 DEF AllFound
      <4>2. r.depth <= MaxDepth
        BY <2>1, <2>3, DecoderNumbers DEF Spent, Inside
      <4>3. \A e \in Image.codes : ~pruned /\ Reportable(e) =>
              Seen(e)' \/ \E q \in Held(todo') : Within(e, q)
        BY <2>1, <3>3, <4>2, HitLeavesRest
      <4>4. /\ Image' = Image /\ \A e : (Reportable(e)' <=> Reportable(e))
            /\ \A e, q : Within(e, q)' <=> Within(e, q)
        BY <2>1 DEF Image, Reportable, Wants, Within, Across
      <4>. QED BY <3>0, <4>1, <4>3, <4>4 DEF RemainInv
    <3>. QED BY <1>4, <2>3, <3>1, <3>2, <3>3, WalkScans
  <2>. QED BY <2>2, <2>3
<1>5. CASE WalkEnds
  <2>1. todo = <<>> /\ at = "scan" /\ upload.multi /\ at' = "answered"
        /\ UNCHANGED <<upload, found, pruned>>
    BY <1>5 DEF WalkEnds, Answer
  <2>2. Held(todo) = {}
    BY <2>1 DEF Held
  <2>3. ~pruned => \A c \in Image.codes : Reportable(c) => Seen(c)
    BY <2>1, <2>2 DEF RemainInv
  <2>4. AllFound'
    BY <2>1, <2>3 DEF AllFound, Reportable, Wants, Seen, Image
  <2>. QED BY <2>1, <2>4 DEF RemainInv
<1>6. CASE First
  <2>1. ~upload.multi /\ UNCHANGED upload /\ at' = "answered"
    BY <1>6 DEF First, Answer
  <2>. QED BY <2>1 DEF RemainInv, AllFound
<1>7. CASE Cancel \/ UNCHANGED decoderVars
  BY <1>1, <1>7 DEF Cancel, decoderVars
<1>. QED BY <1>2, <1>3, <1>4, <1>5, <1>6, <1>7 DEF DecoderNext, DecoderStep

\* In every call the decoder's state is the decoder's own.
LEMMA DecoderInCall == CallInit => DecoderInit
BY DEF CallInit

LEMMA DecoderInStep == [CallNext]_callVars => [DecoderNext]_decoderVars
BY DEF CallNext, callVars, RenderCall, DecodeCall, Elsewhere, DecoderNext

(* The work an upload can cause is bounded for every image, filter and       *)
(* limit: at the header, at the pixels and in the walk (LoadImage, walk).    *)
THEOREM SearchStaysBounded == CallSpec => []SearchBounded
<1>1. CallInit => SearchInv
  BY DecoderInCall, SearchInit
<1>2. SearchInv /\ [CallNext]_callVars => SearchInv'
  BY DecoderInStep, SearchStep
<1>3. SearchInv => SearchBounded
  BY SearchIsBounded
<1>. QED BY <1>1, <1>2, <1>3, PTL DEF CallSpec

(* What is reported is there, once, and nothing that can be read is missed   *)
(* by a search that ran out of neither depth nor budget, whichever code a    *)
(* reader meets first (walk, surrounding, toResult): for every image whose   *)
(* codes do not overlap and are no slivers.                                  *)
THEOREM ReportIsComplete ==
  ASSUME SeparateCodes
  PROVE  CallSpec => []CodesReported
<1> DEFINE Inv == SearchInv /\ ReportInv /\ RemainInv
<1>1. CallInit => Inv
  BY DecoderInCall, SearchInit, ReportInit, RemainInit
<1>2. Inv /\ [CallNext]_callVars => Inv'
  BY DecoderInStep, SearchStep, ReportStep, RemainStep
<1>3. Inv => CodesReported
  BY ReportIsTrue DEF RemainInv, CodesReported
<1>. QED BY <1>1, <1>2, <1>3, PTL DEF CallSpec

-----------------------------------------------------------------------------
(* A request and what its message says (modules Request, Pipeline).        *)

Written == {KeyOrder[i] : i \in DOMAIN KeyOrder}

\* A request is a record of the fields and of a payload.
ReqShape(r) ==
  /\ r = [field |-> r.field, payload |-> r.payload]
  /\ r.field = [f \in Fields |-> r.field[f]]
  /\ r.payload.given \in BOOLEAN /\ DOMAIN r.payload.member \subseteq PayloadKeys

\* The refusals of a decoding: each is the caller's, and none a stage's.
ClientFault(f) ==
  /\ f.status \in {400, 404, 413, 415}
  /\ f.code \in {"UNKNOWN_FIELD", "INVALID_VALUE", "BAD_REQUEST", "NOT_FOUND", "BODY_TOO_LARGE"}

\* What a decoding is: a request, and a fault of the caller's or none.
DecodingShape(d) == ReqShape(d.req) /\ (d.fault = NoFault \/ ClientFault(d.fault))

\* The fields of one request are those of another under a layer.
Laid(new, old, layer) ==
  \A f \in Fields : new.field[f] = IF f \in DOMAIN layer THEN layer[f] ELSE old.field[f]

LEMMA FaultShape ==
  /\ NoFault.status = 0
  /\ \A s, c, f : Fault(s, c, f).status = s /\ Fault(s, c, f).code = c /\ Fault(s, c, f).field = f
  /\ \A f : ClientFault(f) => f # NoFault
BY DEF NoFault, Fault, ClientFault

LEMMA DecodingParts ==
  /\ \A r : Decoded(r).req = r /\ Decoded(r).fault = NoFault
  /\ \A r, f : Refused(r, f).req = r /\ Refused(r, f).fault = f
BY DEF Decoded, Refused

LEMMA KeySets ==
  /\ "payload" \notin Fields /\ "payload" \notin PayloadKeys
  /\ Fields \cap PayloadKeys = {}
  /\ "symbology" \in Fields /\ "type" \in Fields /\ "data" \in Fields
  /\ "symbology" # "type" /\ "data" # "type"
BY DEF Fields, PayloadKeys, TextFields, AutoFields, IntFields, OptIntFields, RealFields, FlagFields

LEMMA NewShape ==
  ASSUME NEW s
  PROVE  /\ ReqShape(NewRequest(s))
         /\ \A f \in Fields : NewRequest(s).field[f] = IF f = "symbology" THEN Text(s) ELSE Zero(f)
<1> DEFINE r == NewRequest(s)
<1>1. r = [field |-> [Blank EXCEPT !["symbology"] = Text(s)], payload |-> NoPayload]
  BY DEF NewRequest
<1>2. r.field = [f \in Fields |-> IF f = "symbology" THEN Text(s) ELSE Zero(f)]
  <2> DEFINE g == [Blank EXCEPT !["symbology"] = Text(s)]
  <2>1. DOMAIN g = Fields /\ g = [f \in Fields |-> g[f]]
    BY DEF Blank
  <2>2. \A f \in Fields : g[f] = IF f = "symbology" THEN Text(s) ELSE Zero(f)
    BY DEF Blank
  <2>3. r.field = g
    BY <1>1
  <2> HIDE DEF g
  <2>. QED BY <2>1, <2>2, <2>3
<1>3. r.payload = [given |-> FALSE, member |-> << >>] /\ DOMAIN << >> = {}
  BY <1>1 DEF NoPayload
<1>4. r = [field |-> r.field, payload |-> r.payload]
  BY <1>1
<1> HIDE DEF r
<1>5. r.field = [f \in Fields |-> r.field[f]]
  BY <1>2
<1>6. /\ r.payload.given \in BOOLEAN /\ DOMAIN r.payload.member \subseteq PayloadKeys
  BY <1>3
<1>. QED BY <1>2, <1>4, <1>5, <1>6 DEF ReqShape, r

LEMMA KeyFaultShape ==
  ASSUME NEW k, NEW raw
  PROVE  /\ KeyFault(k, raw) = NoFault \/ ClientFault(KeyFault(k, raw))
         /\ KeyFault(k, raw) = NoFault => k \in Fields \cup PayloadKeys
         /\ k \in Fields /\ KeyFault(k, raw) = NoFault => Parse(k, raw) # Bad
<1>1. ClientFault(Fault(400, "UNKNOWN_FIELD", k)) /\ ClientFault(Fault(400, "INVALID_VALUE", k))
  BY FaultShape DEF ClientFault
<1>. QED BY <1>1, FaultShape, KeySets DEF KeyFault

\* The refused key is one of the bad ones.
LEMMA FirstKeyIn ==
  ASSUME NEW S \in SUBSET Written, S # {}
  PROVE  FirstKey(S) \in S
<1>1. DOMAIN KeyOrder = 1 .. Len(KeyOrder) /\ Len(KeyOrder) \in Nat
  BY DEF KeyOrder
<1> DEFINE T == {i \in DOMAIN KeyOrder : KeyOrder[i] \in S}
<1>2. T \in SUBSET Nat /\ T # {}
  BY <1>1 DEF Written
<1>3. PICK i \in T : \A j \in T : i <= j
  <2> HIDE DEF T
  <2>. QED BY <1>2, LeastNumber
<1>4. \A j \in 1 .. i - 1 : KeyOrder[j] \notin S
  <2>1. \A j \in 1 .. i - 1 : j \in DOMAIN KeyOrder /\ ~(i <= j)
    BY <1>1
  <2>. QED BY <1>3, <2>1
<1>5. \E k \in DOMAIN KeyOrder : KeyOrder[k] \in S /\ \A j \in 1 .. k - 1 : KeyOrder[j] \notin S
  BY <1>3, <1>4
<1>. QED BY <1>5 DEF FirstKey

LEMMA OverlayShape ==
  ASSUME NEW r, ReqShape(r), NEW values
  PROVE  ReqShape(Overlay(r, values)) /\ Laid(Overlay(r, values), r, ValuesLayer(values))
<1> DEFINE o == Overlay(r, values)
           set == PayloadKeys \cap DOMAIN values
<1>1. o.field = [f \in Fields |-> IF f \in DOMAIN values THEN Parse(f, LastOf(values[f])) ELSE r.field[f]]
  BY DEF Overlay
<1>2. o.payload = [given  |-> r.payload.given \/ set # {},
                   member |-> [k \in DOMAIN r.payload.member \cup set |->
                                 IF k \in set THEN LastOf(values[k]) ELSE r.payload.member[k]]]
  BY DEF Overlay
<1>3. o = [field |-> o.field, payload |-> o.payload]
  BY DEF Overlay
<1> HIDE DEF o
<1>4. o.field = [f \in Fields |-> o.field[f]]
  BY <1>1
<1>5. /\ o.payload.given \in BOOLEAN /\ DOMAIN o.payload.member \subseteq PayloadKeys
  BY <1>2 DEF ReqShape
<1>6. Laid(o, r, ValuesLayer(values))
  BY <1>1 DEF Laid, ValuesLayer
<1>. QED BY <1>3, <1>4, <1>5, <1>6 DEF ReqShape, o

\* A form is applied whole, each key's last value, or refused for a key that
\* cannot be set.
LEMMA ValuesApplied ==
  ASSUME NEW r, ReqShape(r), NEW values, DOMAIN values \subseteq Written
  PROVE  LET d == ApplyValues(r, values)
         IN  /\ DecodingShape(d)
             /\ d.fault = NoFault => /\ d.req = Overlay(r, values)
                                     /\ Laid(d.req, r, ValuesLayer(values))
                                     /\ DOMAIN values \subseteq Fields \cup PayloadKeys
<1> DEFINE d == ApplyValues(r, values)
           k == FirstKey(BadKeys(values))
<1>1. CASE BadKeys(values) = {}
  <2>1. d.req = Overlay(r, values) /\ d.fault = NoFault
    BY <1>1, DecodingParts DEF ApplyValues
  <2>2. \A x \in DOMAIN values : KeyFault(x, LastOf(values[x])) = NoFault
    BY <1>1 DEF BadKeys
  <2>3. DOMAIN values \subseteq Fields \cup PayloadKeys
    BY <2>2, KeyFaultShape
  <2> HIDE DEF d
  <2>. QED BY <2>1, <2>3, OverlayShape DEF DecodingShape, d
<1>2. CASE BadKeys(values) # {}
  <2>1. k \in BadKeys(values)
    BY <1>2, FirstKeyIn DEF BadKeys
  <2>2. KeyFault(k, LastOf(values[k])) # NoFault
    BY <2>1 DEF BadKeys
  <2>3. d.req = r /\ d.fault = KeyFault(k, LastOf(values[k]))
    BY <1>2, DecodingParts DEF ApplyValues
  <2> HIDE DEF d, k
  <2>4. ClientFault(d.fault) /\ d.fault # NoFault
    BY <2>2, <2>3, KeyFaultShape
  <2>. QED BY <2>3, <2>4 DEF DecodingShape, d
<1>. QED BY <1>1, <1>2

LEMMA OptionsApplied ==
  ASSUME NEW r, ReqShape(r), NEW options, DOMAIN options \subseteq Written
  PROVE  LET d == ApplyOptions(r, options)
         IN  /\ DecodingShape(d)
             /\ d.fault = NoFault => /\ Laid(d.req, r, OptionsLayer(options))
                                     /\ DOMAIN options \subseteq Fields \cup PayloadKeys
<1> DEFINE values == [k \in DOMAIN options |-> <<options[k]>>]
           d == ApplyValues(r, values)
<1>1. ApplyOptions(r, options) = d
  BY DEF ApplyOptions
<1>2. DOMAIN values = DOMAIN options /\ \A k \in DOMAIN options : LastOf(values[k]) = options[k]
  <2>1. \A x : Len(<<x>>) = 1 /\ <<x>>[1] = x
    OBVIOUS
  <2>. QED BY <2>1 DEF LastOf
<1> HIDE DEF values
<1>3. ValuesLayer(values) = OptionsLayer(options)
  BY <1>2 DEF ValuesLayer, OptionsLayer
<1>. QED BY <1>1, <1>2, <1>3, ValuesApplied

LEMMA RequestExcept ==
  ASSUME NEW r, ReqShape(r)
  PROVE  /\ \A p : [r EXCEPT !.payload = p] = [field |-> r.field, payload |-> p]
         /\ \A k, v : [r EXCEPT !.field[k] = v] = [field |-> [r.field EXCEPT ![k] = v], payload |-> r.payload]
<1>1. r = [field |-> r.field, payload |-> r.payload]
  BY DEF ReqShape
<1> DEFINE a == r.field
           b == r.payload
<1>2. r = [field |-> a, payload |-> b]
  BY <1>1
<1> HIDE DEF a, b
<1>3. \A p : [[field |-> a, payload |-> b] EXCEPT !.payload = p] = [field |-> a, payload |-> p]
  OBVIOUS
<1>4. \A k, v : [[field |-> a, payload |-> b] EXCEPT !.field[k] = v]
                  = [field |-> [a EXCEPT ![k] = v], payload |-> b]
  OBVIOUS
<1>. QED BY <1>2, <1>3, <1>4 DEF a, b

\* A request with another field, or another payload.
LEMMA WithField ==
  ASSUME NEW r, ReqShape(r), NEW k \in Fields, NEW v
  PROVE  LET o == [r EXCEPT !.field[k] = v]
         IN  ReqShape(o) /\ \A f \in Fields : o.field[f] = IF f = k THEN v ELSE r.field[f]
<1> DEFINE o == [r EXCEPT !.field[k] = v]
           g == [r.field EXCEPT ![k] = v]
<1>1. o = [field |-> g, payload |-> r.payload]
  BY RequestExcept
<1>2. g = [f \in Fields |-> g[f]] /\ \A f \in Fields : g[f] = IF f = k THEN v ELSE r.field[f]
  BY DEF ReqShape
<1> HIDE DEF g, o
<1>3. o.field = g /\ o.payload = r.payload
  BY <1>1
<1>. QED BY <1>1, <1>2, <1>3 DEF ReqShape, o

LEMMA WithPayload ==
  ASSUME NEW r, ReqShape(r), NEW p, p.given \in BOOLEAN, DOMAIN p.member \subseteq PayloadKeys
  PROVE  LET o == [r EXCEPT !.payload = p]
         IN  ReqShape(o) /\ o.field = r.field
<1> DEFINE o == [r EXCEPT !.payload = p]
<1>1. o = [field |-> r.field, payload |-> p]
  BY RequestExcept
<1> HIDE DEF o
<1>2. o.field = r.field /\ o.payload = p
  BY <1>1
<1>. QED BY <1>1, <1>2 DEF ReqShape, o

LEMMA NoPayloadShape ==
  NoPayload.given \in BOOLEAN /\ DOMAIN NoPayload.member \subseteq PayloadKeys
<1>1. DOMAIN << >> = {}
  OBVIOUS
<1>. QED BY <1>1 DEF NoPayload

\* The value a member of a document gives its field.
Spoken(m) == IF m.type = "null" THEN Zero(m.key) ELSE Parse(m.key, m.text)

LEMMA MemberApplied ==
  ASSUME NEW r, ReqShape(r), NEW m, ~UnknownMember(m)
  PROVE  /\ ReqShape(SetMember(r, m))
         /\ \A f \in Fields : SetMember(r, m).field[f] =
              IF Speaking(m) /\ m.key = f THEN Spoken(m) ELSE r.field[f]
<1>0. "payload" \notin Fields /\ Fields \cap PayloadKeys = {} /\ "payload" \notin PayloadKeys
  BY KeySets
<1>1. CASE m.key = "payload"
  <2>1. SetMember(r, m) = [r EXCEPT !.payload = NoPayload]
    BY <1>1 DEF SetMember
  <2>2. ~Speaking(m)
    BY <1>0, <1>1 DEF Speaking
  <2>. QED BY <2>1, <2>2, WithPayload, NoPayloadShape
<1>2. CASE m.key \in PayloadKeys
  <2> DEFINE p == SetPayload(r.payload, m.key, m.text)
  <2>1. p = [given |-> TRUE,
             member |-> [x \in DOMAIN r.payload.member \cup {m.key} |->
                           IF x = m.key THEN m.text ELSE r.payload.member[x]]]
    BY DEF SetPayload
  <2> HIDE DEF p
  <2>2. p.given \in BOOLEAN /\ DOMAIN p.member \subseteq PayloadKeys
    BY <1>2, <2>1 DEF ReqShape
  <2>3. SetMember(r, m) = [r EXCEPT !.payload = p]
    BY <1>0, <1>2 DEF SetMember, p
  <2>4. ~Speaking(m)
    BY <1>0, <1>2 DEF Speaking
  <2>. QED BY <2>2, <2>3, <2>4, WithPayload
<1>3. CASE m.key \in Fields /\ m.type = "null" /\ m.key \notin AutoFields \cup OptIntFields
  <2>1. SetMember(r, m) = r /\ ~Speaking(m)
    BY <1>0, <1>3 DEF SetMember, Speaking
  <2>. QED BY <2>1
<1>4. CASE m.key \in Fields /\ (m.type = "null" => m.key \in AutoFields \cup OptIntFields)
  <2>1. Speaking(m)
    BY <1>4 DEF Speaking
  <2> DEFINE k == m.key
             v == Spoken(m)
             o == [r EXCEPT !.field[k] = v]
  <2>2. SetMember(r, m) = o
    BY <1>0, <1>4 DEF SetMember, Spoken
  <2>3. k \in Fields
    BY <1>4
  <2>4. ReqShape(o) /\ \A f \in Fields : o.field[f] = IF f = k THEN v ELSE r.field[f]
    <3> HIDE DEF k, v
    <3>. QED BY <2>3, WithField
  <2> HIDE DEF o
  <2>. QED BY <2>1, <2>2, <2>4
<1>. QED BY <1>1, <1>2, <1>3, <1>4 DEF UnknownMember

\* A document is applied member by member: of the members that speak of a
\* field the last one decides.
LEMMA MembersApplied ==
  ASSUME NEW r, ReqShape(r), NEW S, NEW doc \in Seq(S),
         \A i \in DOMAIN doc : ~UnknownMember(doc[i])
  PROVE  ReqShape(SetMembers(r, doc)) /\ Laid(SetMembers(r, doc), r, JSONLayer(doc))
<1> DEFINE Sets(g, n) == g = [i \in 0 .. n |-> IF i = 0 THEN r ELSE SetMember(g[i - 1], doc[i])]
           set == CHOOSE g : Sets(g, Len(doc))
           Speaks(i, f) == Speaking(doc[i]) /\ doc[i].key = f
<1>1. SetMembers(r, doc) = set[Len(doc)]
  BY DEF SetMembers
<1>2. Len(doc) \in Nat /\ DOMAIN doc = 1 .. Len(doc)
  OBVIOUS
<1>3. \A n \in Nat : \E g : Sets(g, n)
  <2> DEFINE Failing == {n \in Nat : ~\E g : Sets(g, n)}
  <2>1. SUFFICES ASSUME Failing # {} PROVE FALSE
    OBVIOUS
  <2>2. PICK n \in Failing : \A m \in Failing : n <= m
    BY <2>1, LeastNumber
  <2>3. n # 0
    <3>1. Sets([i \in 0 .. 0 |-> r], 0)
      OBVIOUS
    <3>. QED BY <3>1
  <2>4. PICK g : Sets(g, n - 1)
    <3>1. n \in Nat /\ n - 1 \in Nat /\ ~(n <= n - 1)
      BY <2>2, <2>3
    <3>2. n - 1 \notin Failing
      <4> HIDE DEF Failing
      <4>. QED BY <2>2, <3>1
    <3>. QED BY <3>1, <3>2
  <2> DEFINE h == [i \in 0 .. n |-> IF i = n THEN SetMember(g[n - 1], doc[n]) ELSE g[i]]
  <2>5. Sets(h, n)
    <3>1. \A i \in 0 .. n - 1 : h[i] = g[i]
      BY <2>2
    <3>2. ASSUME NEW i \in 0 .. n
          PROVE  h[i] = IF i = 0 THEN r ELSE SetMember(h[i - 1], doc[i])
      <4>1. CASE i = n
        <5>1. h[n - 1] = g[n - 1]
          BY <2>2, <2>3, <3>1
        <5>. QED BY <2>3, <4>1, <5>1
      <4>2. CASE i = 0
        BY <2>3, <2>4, <4>2
      <4>3. CASE i \in 1 .. n - 1
        <5>1. h[i] = g[i] /\ h[i - 1] = g[i - 1]
          BY <2>2, <3>1, <4>3
        <5>2. i \in 0 .. n - 1 /\ i # 0
          BY <2>2, <4>3
        <5>3. g[i] = SetMember(g[i - 1], doc[i])
          BY <2>4, <5>2
        <5>. QED BY <5>1, <5>2, <5>3
      <4>. QED BY <2>2, <4>1, <4>2, <4>3
    <3> HIDE DEF h
    <3>3. h = [i \in 0 .. n |-> h[i]]
      BY DEF h
    <3>. QED BY <3>2, <3>3
  <2>. QED BY <2>2, <2>5
<1>4. Sets(set, Len(doc))
  BY <1>2, <1>3
<1> HIDE DEF set
<1>5. set[0] = r /\ \A i \in 1 .. Len(doc) : set[i] = SetMember(set[i - 1], doc[i])
  <2>1. ASSUME NEW i \in 0 .. Len(doc)
        PROVE  set[i] = IF i = 0 THEN r ELSE SetMember(set[i - 1], doc[i])
    BY <1>4
  <2>2. 0 \in 0 .. Len(doc) /\ \A i \in 1 .. Len(doc) : i \in 0 .. Len(doc) /\ i # 0
    BY <1>2
  <2>. QED BY <2>1, <2>2
<1> DEFINE Good(n) ==
     /\ ReqShape(set[n])
     /\ \A f \in Fields :
          /\ (\A j \in 1 .. n : ~Speaks(j, f)) => set[n].field[f] = r.field[f]
          /\ \A i \in 1 .. n : Speaks(i, f) /\ (\A j \in i + 1 .. n : ~Speaks(j, f))
               => set[n].field[f] = Spoken(doc[i])
<1>6. \A n \in 0 .. Len(doc) : Good(n)
  <2> DEFINE Failing == {n \in 0 .. Len(doc) : ~Good(n)}
  <2>1. SUFFICES ASSUME Failing # {} PROVE FALSE
    OBVIOUS
  <2>2. PICK n \in Failing : \A m \in Failing : n <= m
    <3>1. Failing \in SUBSET Nat
      BY <1>2
    <3> HIDE DEF Failing
    <3>. QED BY <2>1, <3>1, LeastNumber
  <2>3. n # 0
    BY <1>5, <2>2
  <2>4. n \in 1 .. Len(doc) /\ Good(n - 1)
    <3>1. n \in 1 .. Len(doc) /\ n - 1 \in 0 .. Len(doc)
      BY <1>2, <2>3
    <3>2. n - 1 \notin Failing
      <4>1. n \in Nat /\ ~(n <= n - 1)
        BY <1>2, <3>1
      <4> HIDE DEF Failing
      <4>. QED BY <2>2, <4>1
    <3>. QED BY <3>1, <3>2
  <2>5. set[n] = SetMember(set[n - 1], doc[n]) /\ ~UnknownMember(doc[n])
    BY <1>2, <1>5, <2>4
  <2>6. /\ ReqShape(set[n])
        /\ \A f \in Fields : set[n].field[f] = IF Speaks(n, f) THEN Spoken(doc[n]) ELSE set[n - 1].field[f]
    <3>1. ReqShape(set[n - 1])
      BY <2>4
    <3>. QED BY <2>5, <3>1, MemberApplied
  <2> HIDE DEF Speaks
  <2>7. ASSUME NEW f \in Fields, \A j \in 1 .. n : ~Speaks(j, f)
        PROVE  set[n].field[f] = r.field[f]
    <3>1. \A j \in 1 .. n - 1 : j \in 1 .. n
      BY <1>2, <2>4
    <3>2. ~Speaks(n, f)
      BY <1>2, <2>4, <2>7
    <3>. QED BY <2>4, <2>6, <2>7, <3>1, <3>2
  <2>8. ASSUME NEW f \in Fields, NEW i \in 1 .. n, Speaks(i, f), \A j \in i + 1 .. n : ~Speaks(j, f)
        PROVE  set[n].field[f] = Spoken(doc[i])
    <3>1. CASE i = n
      BY <2>6, <2>8, <3>1
    <3>2. CASE i # n
      <4>1. i \in 1 .. n - 1 /\ n \in i + 1 .. n
        BY <1>2, <2>4, <3>2
      <4>2. \A j \in i + 1 .. n - 1 : j \in i + 1 .. n
        BY <1>2, <2>4
      <4>. QED BY <2>4, <2>6, <2>8, <4>1, <4>2
    <3>. QED BY <3>1, <3>2
  <2>9. Good(n)
    BY <2>6, <2>7, <2>8
  <2>. QED BY <2>2, <2>9
<1>7. Good(Len(doc))
  <2>1. Len(doc) \in 0 .. Len(doc)
    BY <1>2
  <2> HIDE DEF Good
  <2>. QED BY <1>6, <2>1
<1> DEFINE layer == JSONLayer(doc)
<1>8. /\ \A f \in DOMAIN layer : \E i \in 1 .. Len(doc) : Speaks(i, f)
      /\ \A f, i : i \in 1 .. Len(doc) /\ Speaks(i, f) => f \in DOMAIN layer
  BY <1>2 DEF JSONLayer
<1>9. ASSUME NEW f \in Fields, f \notin DOMAIN layer
      PROVE  set[Len(doc)].field[f] = r.field[f]
  BY <1>7, <1>8, <1>9
<1>10. ASSUME NEW f \in Fields, f \in DOMAIN layer
       PROVE  set[Len(doc)].field[f] = layer[f]
  <2> DEFINE Saying == {i \in 1 .. Len(doc) : Speaks(i, f)}
             Last(i) == /\ doc[i].key = f /\ Speaking(doc[i])
                        /\ \A j \in DOMAIN doc : j > i => ~(doc[j].key = f /\ Speaking(doc[j]))
             last == CHOOSE i \in DOMAIN doc : Last(i)
  <2>1. \E i \in DOMAIN doc : Last(i)
    <3>1. Saying \in SUBSET (0 .. Len(doc)) /\ Saying # {}
      BY <1>2, <1>8, <1>10
    <3>2. PICK i \in Saying : \A j \in Saying : j <= i
      <4> HIDE DEF Saying
      <4>. QED BY <1>2, <3>1, GreatestNumber
    <3>3. Last(i)
      BY <1>2, <3>2
    <3>. QED BY <1>2, <3>2, <3>3
  <2>2. last \in DOMAIN doc /\ Last(last)
    <3> HIDE DEF Last
    <3>. QED BY <2>1
  <2>3. layer[f] = Spoken(doc[last])
    <3>1. layer[f] = LET i == last IN IF doc[i].type = "null" THEN Zero(f) ELSE Parse(f, doc[i].text)
      BY <1>10 DEF JSONLayer
    <3> HIDE DEF last
    <3>. QED BY <2>2, <3>1 DEF Spoken
  <2> HIDE DEF last
  <2>4. Speaks(last, f) /\ \A j \in last + 1 .. Len(doc) : ~Speaks(j, f)
    BY <1>2, <2>2
  <2>. QED BY <1>2, <1>7, <2>2, <2>3, <2>4
<1>11. Laid(set[Len(doc)], r, layer)
  BY <1>9, <1>10 DEF Laid
<1>. QED BY <1>1, <1>7, <1>11

\* The texts that stand for themselves are not the empty text.
LEMMA NamesNotEmpty ==
  /\ Empty # "json" /\ Empty # "multipart" /\ Empty # "form" /\ Empty # "raw"
  /\ Empty # "UNSUPPORTED_OPTION" /\ Empty # "UNSCANNABLE"
BY DEF Empty

\* A JSON document is applied whole, each field's last word, or refused.
LEMMA JSONApplied ==
  ASSUME NEW r, ReqShape(r), NEW body, NEW S, body.doc \in Seq(S),
         body.shape = "empty" => body.doc = <<>>
  PROVE  LET d == ApplyJSON(r, body)
         IN  /\ DecodingShape(d)
             /\ d.fault = NoFault =>
                  /\ Laid(d.req, r, JSONLayer(body.doc))
                  /\ {body.doc[i].key : i \in DOMAIN body.doc} \subseteq Fields \cup PayloadKeys \cup {"payload"}
<1> DEFINE d == ApplyJSON(r, body)
           members == {body.doc[i] : i \in DOMAIN body.doc}
           unread  == {m \in members : UnknownMember(m) \/ WrongType(m)}
           Whole1 == /\ Laid(d.req, r, JSONLayer(body.doc))
                     /\ {body.doc[i].key : i \in DOMAIN body.doc} \subseteq Fields \cup PayloadKeys \cup {"payload"}
<1>1. \A c \in {"BAD_REQUEST", "UNKNOWN_FIELD", "INVALID_VALUE"} : \A k : ClientFault(Fault(400, c, k))
  BY FaultShape DEF ClientFault
<1>2. \A f : ClientFault(f) => DecodingShape(Refused(r, f)) /\ Refused(r, f).fault # NoFault
  BY FaultShape, DecodingParts DEF DecodingShape
<1>3. CASE body.shape = "empty"
  <2>1. d.req = r /\ d.fault = NoFault
    BY <1>3, DecodingParts DEF ApplyJSON
  <2>2. body.doc = <<>> /\ DOMAIN body.doc = {}
    BY <1>3
  <2>3. DOMAIN JSONLayer(body.doc) = {}
    BY <2>2 DEF JSONLayer
  <2> HIDE DEF d
  <2>. QED BY <2>1, <2>2, <2>3 DEF DecodingShape, Laid, d
<1>4. CASE body.shape # "empty" /\ (body.shape \in {"malformed", "oversize"} \/ \E m \in members : BadAuto(m))
  <2>1. d = Refused(r, Fault(400, "BAD_REQUEST", Empty))
    BY <1>4, Zenon DEF ApplyJSON
  <2> HIDE DEF d
  <2>. QED BY <1>1, <1>2, <2>1 DEF d
<1>5. CASE /\ body.shape # "empty" /\ body.shape \notin {"malformed", "oversize"}
           /\ ~\E m \in members : BadAuto(m)
  <2>1. CASE unread # {}
    <3>1. \E c \in {"UNKNOWN_FIELD", "INVALID_VALUE"} : \E k : d = Refused(r, Fault(400, c, k))
      <4> DEFINE m == FirstMember(body.doc, unread)
      <4>1. d = Refused(r, IF UnknownMember(m) THEN Fault(400, "UNKNOWN_FIELD", m.key)
                                               ELSE Fault(400, "INVALID_VALUE", m.key))
        BY <1>5, <2>1, Zenon DEF ApplyJSON
      <4> HIDE DEF d, m
      <4>. QED BY <4>1
    <3> HIDE DEF d
    <3>. QED BY <1>1, <1>2, <3>1 DEF d
  <2>2. CASE unread = {} /\ body.shape = "many"
    <3>1. d = Refused(r, Fault(400, "BAD_REQUEST", Empty))
      BY <1>5, <2>2, Zenon DEF ApplyJSON
    <3> HIDE DEF d
    <3>. QED BY <1>1, <1>2, <3>1 DEF d
  <2>3. CASE unread = {} /\ body.shape # "many"
    <3>1. d = Decoded(SetMembers(r, body.doc))
      BY <1>5, <2>3, Zenon DEF ApplyJSON
    <3>2. \A i \in DOMAIN body.doc : ~UnknownMember(body.doc[i])
      BY <2>3
    <3>3. ReqShape(SetMembers(r, body.doc)) /\ Laid(SetMembers(r, body.doc), r, JSONLayer(body.doc))
      BY <3>2, MembersApplied
    <3>4. \A i \in DOMAIN body.doc : body.doc[i].key \in Fields \cup PayloadKeys \cup {"payload"}
      BY <3>2 DEF UnknownMember
    <3> HIDE DEF d
    <3>. QED BY <3>1, <3>3, <3>4, DecodingParts DEF DecodingShape, d
  <2>. QED BY <2>1, <2>2, <2>3
<1>. QED BY <1>3, <1>4, <1>5

LEMMA WrittenFinite == IsFiniteSet(Written)
<1>1. DOMAIN KeyOrder = 1 .. Len(KeyOrder) /\ Len(KeyOrder) \in Nat
  BY DEF KeyOrder
<1>2. IsFiniteSet(1 .. Len(KeyOrder))
  BY <1>1, FS_Interval
<1> DEFINE f == [i \in 1 .. Len(KeyOrder) |-> KeyOrder[i]]
<1>3. f \in Surjection(1 .. Len(KeyOrder), Written)
  BY <1>1 DEF Surjection, Written
<1>. QED BY <1>2, <1>3, FS_Surjection DEF ExistsSurjection

\* An order of the files names each of them, and nothing else.
LEMMA OrderShape ==
  ASSUME NEW S \in SUBSET Written, NEW o \in Orders(S)
  PROVE  Len(o) \in Nat /\ DOMAIN o = 1 .. Len(o) /\ {o[i] : i \in 1 .. Len(o)} = S
<1> DEFINE n == Cardinality(S)
<1>1. n \in Nat
  BY WrittenFinite, FS_Subset, FS_CardinalityType
<1>2. o \in [1 .. n -> S] /\ {o[i] : i \in DOMAIN o} = S
  BY DEF Orders
<1> HIDE DEF n
<1>3. o \in Seq(S) /\ Len(o) = n /\ DOMAIN o = 1 .. n
  BY <1>1, <1>2
<1>. QED BY <1>1, <1>2, <1>3

\* One uploaded file is applied as the value of the key it is named for.
Uploaded(d, files, k) ==
  IF d.fault # NoFault THEN d
  ELSE IF PartFault(files[k]) # NoFault THEN Refused(d.req, PartFault(files[k]))
  ELSE ApplyValues(d.req, [x \in {k} |-> <<PartURI(files[x])>>])

LEMMA FileApplied ==
  ASSUME NEW d, DecodingShape(d), NEW files, NEW k \in Written
  PROVE  LET e == Uploaded(d, files, k)
         IN  /\ DecodingShape(e)
             /\ e.fault = NoFault =>
                  /\ d.fault = NoFault /\ k \in Fields \cup PayloadKeys
                  /\ \A f \in Fields : e.req.field[f] = IF f = k THEN Parse(f, PartURI(files[f]))
                                                        ELSE d.req.field[f]
<1> DEFINE e == Uploaded(d, files, k)
           values == [x \in {k} |-> <<PartURI(files[x])>>]
<1>1. CASE d.fault # NoFault
  BY <1>1 DEF Uploaded
<1>2. CASE d.fault = NoFault /\ PartFault(files[k]) # NoFault
  <2>1. ClientFault(PartFault(files[k]))
    BY <1>2, FaultShape DEF PartFault, ClientFault
  <2>2. e.req = d.req /\ e.fault = PartFault(files[k])
    BY <1>2, DecodingParts DEF Uploaded
  <2> HIDE DEF e
  <2>. QED BY <1>2, <2>1, <2>2 DEF DecodingShape, e
<1>3. CASE d.fault = NoFault /\ PartFault(files[k]) = NoFault
  <2>1. e = ApplyValues(d.req, values)
    BY <1>3 DEF Uploaded
  <2>2. DOMAIN values = {k} /\ LastOf(values[k]) = PartURI(files[k])
    <3>1. \A x : Len(<<x>>) = 1 /\ <<x>>[1] = x
      OBVIOUS
    <3>. QED BY <3>1 DEF LastOf
  <2> HIDE DEF values
  <2>3. /\ DecodingShape(e)
        /\ e.fault = NoFault => /\ Laid(e.req, d.req, ValuesLayer(values))
                                /\ DOMAIN values \subseteq Fields \cup PayloadKeys
    BY <2>1, <2>2, ValuesApplied DEF DecodingShape
  <2>4. /\ \A f : f \in DOMAIN ValuesLayer(values) <=> f \in Fields /\ f = k
        /\ k \in Fields => ValuesLayer(values)[k] = Parse(k, PartURI(files[k]))
    BY <2>2 DEF ValuesLayer
  <2> HIDE DEF e
  <2>. QED BY <1>3, <2>2, <2>3, <2>4 DEF Laid, e
<1>. QED BY <1>1, <1>2, <1>3

FilesLayer(files) == [f \in Fields \cap DOMAIN files |-> Parse(f, PartURI(files[f]))]

\* The files of a body are applied whole, whatever their order, or refused.
LEMMA FilesApplied ==
  ASSUME NEW d0, ReqShape(d0.req), d0.fault = NoFault,
         NEW files, DOMAIN files \in SUBSET Written, NEW order \in Orders(DOMAIN files)
  PROVE  LET d == ApplyFiles(d0, files, order)
         IN  /\ DecodingShape(d)
             /\ d.fault = NoFault => /\ Laid(d.req, d0.req, FilesLayer(files))
                                     /\ DOMAIN files \subseteq Fields \cup PayloadKeys
<1> DEFINE n0 == Len(order)
           Step1(g, i) == IF i = 0 THEN d0
                          ELSE IF g[i - 1].fault # NoFault THEN g[i - 1]
                          ELSE IF PartFault(files[order[i]]) # NoFault
                               THEN Refused(g[i - 1].req, PartFault(files[order[i]]))
                               ELSE ApplyValues(g[i - 1].req,
                                                [k \in {order[i]} |-> <<PartURI(files[k])>>])
           Applies(g, n) == g = [i \in 0 .. n |-> Step1(g, i)]
           apply == CHOOSE g : Applies(g, n0)
<1>1. ApplyFiles(d0, files, order) = apply[n0]
  BY DEF ApplyFiles
<1>2. n0 \in Nat /\ DOMAIN order = 1 .. n0 /\ {order[i] : i \in 1 .. n0} = DOMAIN files
  BY OrderShape
<1>3. \A g, i : Step1(g, i) = IF i = 0 THEN d0 ELSE Uploaded(g[i - 1], files, order[i])
  BY DEF Uploaded
<1> HIDE DEF Step1
<1>4. \A n \in Nat : \E g : Applies(g, n)
  <2> DEFINE Failing == {n \in Nat : ~\E g : Applies(g, n)}
  <2>1. SUFFICES ASSUME Failing # {} PROVE FALSE
    OBVIOUS
  <2>2. PICK n \in Failing : \A m \in Failing : n <= m
    BY <2>1, LeastNumber
  <2>3. n # 0
    <3> DEFINE g == [i \in 0 .. 0 |-> d0]
    <3>1. DOMAIN g = {0} /\ g[0] = d0 /\ 0 .. 0 = {0}
      OBVIOUS
    <3>2. g = [i \in 0 .. 0 |-> Step1(g, i)]
      BY <1>3, <3>1
    <3>. QED BY <3>2
  <2>4. PICK g : Applies(g, n - 1)
    <3>1. n \in Nat /\ n - 1 \in Nat /\ ~(n <= n - 1)
      BY <2>2, <2>3
    <3>2. n - 1 \notin Failing
      <4> HIDE DEF Failing
      <4>. QED BY <2>2, <3>1
    <3>. QED BY <3>1, <3>2
  <2> DEFINE h == [i \in 0 .. n |-> IF i = n THEN Uploaded(g[n - 1], files, order[n]) ELSE g[i]]
  <2>5. Applies(h, n)
    <3>1. \A i \in 0 .. n - 1 : h[i] = g[i]
      BY <2>2
    <3>2. ASSUME NEW i \in 0 .. n
          PROVE  h[i] = IF i = 0 THEN d0 ELSE Uploaded(h[i - 1], files, order[i])
      <4>1. CASE i = n
        <5>1. h[n - 1] = g[n - 1]
          BY <2>2, <2>3, <3>1
        <5>. QED BY <2>3, <4>1, <5>1
      <4>2. CASE i # n
        <5>1. i \in 0 .. n - 1 /\ h[i] = g[i]
          BY <2>2, <3>1, <4>2
        <5>2. g[i] = IF i = 0 THEN d0 ELSE Uploaded(g[i - 1], files, order[i])
          BY <1>3, <2>4, <5>1
        <5>3. i # 0 => h[i - 1] = g[i - 1]
          BY <2>2, <3>1, <5>1
        <5> HIDE DEF h
        <5>. QED BY <5>1, <5>2, <5>3
      <4>. QED BY <4>1, <4>2
    <3> HIDE DEF h
    <3>3. h = [i \in 0 .. n |-> h[i]]
      BY DEF h
    <3>. QED BY <1>3, <3>2, <3>3
  <2>. QED BY <2>2, <2>5
<1>5. Applies(apply, n0)
  BY <1>2, <1>4
<1> HIDE DEF apply
<1>6. apply[0] = d0 /\ \A i \in 1 .. n0 : apply[i] = Uploaded(apply[i - 1], files, order[i])
  <2>1. ASSUME NEW i \in 0 .. n0
        PROVE  apply[i] = IF i = 0 THEN d0 ELSE Uploaded(apply[i - 1], files, order[i])
    BY <1>3, <1>5
  <2>2. 0 \in 0 .. n0 /\ \A i \in 1 .. n0 : i \in 0 .. n0 /\ i # 0
    BY <1>2
  <2>. QED BY <2>1, <2>2
<1> DEFINE Speaks(n) == {order[i] : i \in 1 .. n}
           Good(n) == /\ DecodingShape(apply[n])
                      /\ apply[n].fault = NoFault =>
                           /\ Speaks(n) \subseteq Fields \cup PayloadKeys
                           /\ \A f \in Fields : apply[n].req.field[f] =
                                IF f \in Speaks(n) THEN Parse(f, PartURI(files[f])) ELSE d0.req.field[f]
<1>7. \A n \in 0 .. n0 : Good(n)
  <2> DEFINE Failing == {n \in 0 .. n0 : ~Good(n)}
  <2>1. SUFFICES ASSUME Failing # {} PROVE FALSE
    OBVIOUS
  <2>2. PICK n \in Failing : \A m \in Failing : n <= m
    <3>1. Failing \in SUBSET Nat
      BY <1>2
    <3> HIDE DEF Failing
    <3>. QED BY <2>1, <3>1, LeastNumber
  <2>3. n # 0
    <3>1. Speaks(0) = {}
      OBVIOUS
    <3>2. Good(0)
      BY <1>6, <3>1 DEF DecodingShape
    <3>. QED BY <2>2, <3>2
  <2>4. n \in 1 .. n0 /\ Good(n - 1)
    <3>1. n \in 1 .. n0 /\ n - 1 \in 0 .. n0
      BY <1>2, <2>3
    <3>2. n - 1 \notin Failing
      <4>1. n \in Nat /\ ~(n <= n - 1)
        BY <1>2, <3>1
      <4> HIDE DEF Failing
      <4>. QED BY <2>2, <4>1
    <3>. QED BY <3>1, <3>2
  <2>5. Speaks(n) = Speaks(n - 1) \cup {order[n]}
    <3>1. 1 .. n = 1 .. n - 1 \cup {n}
      BY <1>2, <2>4
    <3>. QED BY <3>1
  <2>6. order[n] \in Written /\ order[n] \in DOMAIN files
    BY <1>2, <2>4
  <2> DEFINE k == order[n]
             e == Uploaded(apply[n - 1], files, k)
  <2>7. apply[n] = e
    BY <1>6, <2>4
  <2> HIDE DEF Speaks, k
  <2>8. /\ DecodingShape(e)
        /\ e.fault = NoFault =>
             /\ apply[n - 1].fault = NoFault /\ k \in Fields \cup PayloadKeys
             /\ \A f \in Fields : e.req.field[f] = IF f = k THEN Parse(f, PartURI(files[f]))
                                                   ELSE apply[n - 1].req.field[f]
    BY <2>4, <2>6, FileApplied DEF k
  <2> HIDE DEF e
  <2>9. Good(n)
    BY <2>4, <2>5, <2>7, <2>8 DEF k
  <2>. QED BY <2>2, <2>9
<1>8. Good(n0) /\ Speaks(n0) = DOMAIN files
  <2>1. n0 \in 0 .. n0
    BY <1>2
  <2> HIDE DEF Good
  <2>. QED BY <1>2, <1>7, <2>1
<1> HIDE DEF n0, Speaks
<1>9. \A f \in Fields : f \in DOMAIN FilesLayer(files) <=> f \in DOMAIN files
  BY DEF FilesLayer
<1>10. \A f \in Fields : f \in DOMAIN files => FilesLayer(files)[f] = Parse(f, PartURI(files[f]))
  BY DEF FilesLayer
<1>. QED BY <1>1, <1>8, <1>9, <1>10 DEF Laid

\* What a body says of a field at most, its files over its values, and the
\* keys it writes.
Upper(body) == IF body.type = "multipart" THEN FilesLayer(body.files) ELSE << >>
BodyKeys(body) ==
  CASE body.type = "json" -> {body.doc[i].key : i \in DOMAIN body.doc}
    [] body.type \in {"form", "multipart"} -> DOMAIN body.values \cup DOMAIN body.files
    [] OTHER -> {}

Bodies == {m.body : m \in Messages}

LEMMA BodyShape ==
  ASSUME NEW body \in Bodies
  PROVE  /\ DOMAIN body.values \subseteq Written /\ DOMAIN body.files \subseteq Written
         /\ body.doc \in Seq({body.doc[i] : i \in DOMAIN body.doc})
         /\ body.shape = "empty" => body.doc = <<>>
         /\ body.type = Empty => body.shape \in {"raw", "empty", "oversize"}
         /\ body.type = "form" => DOMAIN body.files = {}
<1>1. PICK m \in Messages : body = m.body
  BY DEF Bodies
<1>2. /\ DOMAIN m.body.values \subseteq Written /\ DOMAIN m.body.files \subseteq Written
      /\ m.body.doc \in Seq({m.body.doc[i] : i \in DOMAIN m.body.doc})
      /\ m.body.shape = "empty" => m.body.doc = <<>>
      /\ m.body.type = Empty => m.body.shape \in {"raw", "empty", "oversize"}
      /\ m.body.type = "form" => DOMAIN m.body.files = {}
  BY MessagesAssumption, Zenon DEF Written
<1>. QED BY <1>1, <1>2

\* Of a body that is accepted every field is what the body says of it, and
\* what it does not speak of is left alone.
LEMMA BodyApplied ==
  ASSUME NEW r, ReqShape(r), NEW body \in Bodies, NEW d \in ApplyBody(r, body)
  PROVE  /\ DecodingShape(d)
         /\ d.fault = NoFault =>
              /\ \A f \in Fields : d.req.field[f] =
                   IF f \in DOMAIN Upper(body) THEN Upper(body)[f]
                   ELSE IF f \in DOMAIN BodyLayer(body) THEN BodyLayer(body)[f] ELSE r.field[f]
              /\ BodyKeys(body) \subseteq Fields \cup PayloadKeys
                   \cup {k \in {"payload"} : body.type = "json"}
<1>1. /\ \A k : ClientFault(Fault(400, "BAD_REQUEST", k)) /\ ClientFault(Fault(415, "BAD_REQUEST", k))
      /\ \A f : ClientFault(f) => DecodingShape(Refused(r, f)) /\ Refused(r, f).fault # NoFault
  BY FaultShape, DecodingParts DEF ClientFault, DecodingShape
<1>2. DOMAIN << >> = {}
  OBVIOUS
<1>3. CASE body.type = "json"
  <2>1. d = ApplyJSON(r, body)
    BY <1>3, NamesNotEmpty DEF ApplyBody
  <2>2. BodyLayer(body) = JSONLayer(body.doc) /\ DOMAIN Upper(body) = {}
    BY <1>2, <1>3, NamesNotEmpty DEF BodyLayer, Upper
  <2>3. BodyKeys(body) = {body.doc[i].key : i \in DOMAIN body.doc}
    BY <1>3 DEF BodyKeys
  <2>4. /\ DecodingShape(d)
        /\ d.fault = NoFault =>
             /\ Laid(d.req, r, JSONLayer(body.doc))
             /\ {body.doc[i].key : i \in DOMAIN body.doc} \subseteq Fields \cup PayloadKeys \cup {"payload"}
    <3> DEFINE S == {body.doc[i] : i \in DOMAIN body.doc}
    <3>1. body.doc \in Seq(S) /\ (body.shape = "empty" => body.doc = <<>>)
      BY BodyShape
    <3> HIDE DEF S
    <3>. QED BY <2>1, <3>1, JSONApplied
  <2>. QED BY <1>3, <2>2, <2>3, <2>4 DEF Laid
<1>4. CASE body.type = "multipart"
  <2>1. d \in ApplyMultipart(r, body)
    BY <1>4, NamesNotEmpty DEF ApplyBody
  <2>2. BodyLayer(body) = ValuesLayer(body.values) /\ Upper(body) = FilesLayer(body.files)
    BY <1>4, NamesNotEmpty DEF BodyLayer, Upper
  <2>3. BodyKeys(body) = DOMAIN body.values \cup DOMAIN body.files
    BY <1>4 DEF BodyKeys
  <2> DEFINE v == ApplyValues(r, body.values)
  <2>4. /\ DecodingShape(v)
        /\ v.fault = NoFault => /\ Laid(v.req, r, ValuesLayer(body.values))
                                /\ DOMAIN body.values \subseteq Fields \cup PayloadKeys
    BY BodyShape, ValuesApplied
  <2>5. \/ d = Refused(r, Fault(400, "BAD_REQUEST", Empty))
        \/ v.fault # NoFault /\ d = v
        \/ v.fault = NoFault /\ \E o \in Orders(DOMAIN body.files) : d = ApplyFiles(v, body.files, o)
    BY <2>1 DEF ApplyMultipart
  <2> HIDE DEF v
  <2>6. CASE d = Refused(r, Fault(400, "BAD_REQUEST", Empty))
    BY <1>1, <2>6
  <2>7. CASE v.fault # NoFault /\ d = v
    BY <2>4, <2>7
  <2>8. ASSUME v.fault = NoFault, NEW o \in Orders(DOMAIN body.files), d = ApplyFiles(v, body.files, o)
        PROVE  /\ DecodingShape(d)
               /\ d.fault = NoFault => /\ Laid(d.req, v.req, FilesLayer(body.files))
                                       /\ DOMAIN body.files \subseteq Fields \cup PayloadKeys
    BY <2>4, <2>8, BodyShape, FilesApplied DEF DecodingShape
  <2>. QED BY <2>2, <2>3, <2>4, <2>5, <2>6, <2>7, <2>8 DEF Laid
<1>5. CASE body.type = "form"
  <2>1. d = Refused(r, Fault(400, "BAD_REQUEST", Empty)) \/ d = ApplyValues(r, body.values)
    BY <1>5, NamesNotEmpty DEF ApplyBody
  <2>2. BodyLayer(body) = ValuesLayer(body.values) /\ DOMAIN Upper(body) = {}
    BY <1>2, <1>5, NamesNotEmpty DEF BodyLayer, Upper
  <2>3. BodyKeys(body) = DOMAIN body.values
    BY <1>5, BodyShape DEF BodyKeys
  <2>4. LET v == ApplyValues(r, body.values)
        IN  /\ DecodingShape(v)
            /\ v.fault = NoFault => /\ Laid(v.req, r, ValuesLayer(body.values))
                                    /\ DOMAIN body.values \subseteq Fields \cup PayloadKeys
    BY BodyShape, ValuesApplied
  <2>. QED BY <1>1, <2>1, <2>2, <2>3, <2>4 DEF Laid
<1>6. CASE body.type = Empty
  <2>1. body.type # "json" /\ body.type # "multipart" /\ body.type # "form"
    BY <1>6, NamesNotEmpty
  <2>2. DOMAIN Upper(body) = {} /\ BodyKeys(body) = {}
    BY <1>2, <2>1 DEF Upper, BodyKeys
  <2>3. CASE body.shape = "oversize"
    <3>1. d = Refused(r, Fault(400, "BAD_REQUEST", Empty))
      BY <1>6, <2>1, <2>3 DEF ApplyBody
    <3>. QED BY <1>1, <3>1
  <2>4. CASE body.shape = "empty"
    <3>1. d = Decoded(r)
      BY <1>6, <2>1, <2>4 DEF ApplyBody
    <3>2. DOMAIN BodyLayer(body) = {}
      BY <1>2, <2>1, <2>4 DEF BodyLayer
    <3>. QED BY <2>2, <3>1, <3>2, DecodingParts DEF DecodingShape
  <2>5. CASE body.shape = "raw"
    <3>1. d = Decoded([r EXCEPT !.field["data"] = body.raw])
      BY <1>6, <2>1, <2>5 DEF ApplyBody
    <3>2. BodyLayer(body) = [f \in {"data"} |-> body.raw]
      BY <1>6, <2>1, <2>5 DEF BodyLayer
    <3>3. DOMAIN BodyLayer(body) = {"data"} /\ BodyLayer(body)["data"] = body.raw
      BY <3>2
    <3> DEFINE k == "data"
               o == [r EXCEPT !.field[k] = body.raw]
    <3>4. ReqShape(o) /\ \A f \in Fields : o.field[f] = IF f = k THEN body.raw ELSE r.field[f]
      <4>1. k \in Fields
        BY KeySets
      <4> HIDE DEF k
      <4>. QED BY <4>1, WithField
    <3>5. d = Decoded(o)
      BY <3>1
    <3> HIDE DEF o
    <3>. QED BY <2>2, <3>3, <3>4, <3>5, DecodingParts DEF DecodingShape
  <2>. QED BY <1>6, <2>3, <2>4, <2>5, BodyShape
<1>7. CASE body.type \notin {"json", "multipart", "form", Empty}
  <2>1. d = Refused(r, Fault(415, "BAD_REQUEST", Empty))
    BY <1>7 DEF ApplyBody
  <2>. QED BY <1>1, <2>1
<1>. QED BY <1>3, <1>4, <1>5, <1>6, <1>7

LEMMA MessageShape ==
  ASSUME NEW m \in Messages
  PROVE  /\ m.body \in Bodies /\ DOMAIN m.query.values \subseteq Written
         /\ DOMAIN m.item.defaults \subseteq Written /\ DOMAIN m.item.options \subseteq Written
         /\ m.item.payload.given \in BOOLEAN /\ DOMAIN m.item.payload.member \subseteq PayloadKeys
<1>1. m.body \in Bodies
  BY DEF Bodies
<1>2. /\ DOMAIN m.query.values \subseteq Written
      /\ DOMAIN m.item.defaults \subseteq Written /\ DOMAIN m.item.options \subseteq Written
      /\ m.item.payload.given \in BOOLEAN /\ DOMAIN m.item.payload.member \subseteq PayloadKeys
  BY MessagesAssumption, Zenon DEF Written
<1>. QED BY <1>1, <1>2

\* The third and the fourth layer of a message that is not an item.
BodySays(m) == IF Bodied(m) THEN BodyLayer(m.body) ELSE << >>
FilesSay(m) == IF Bodied(m) THEN Upper(m.body) ELSE << >>
Harmless(m) == Fields \cup PayloadKeys
                 \cup {k \in {"payload"} : m.endpoint # "item" /\ m.body.type = "json"}

\* The query, then the body over it.
LEMMA DecodeOverApplied ==
  ASSUME NEW r, ReqShape(r), NEW m \in Messages, NEW d \in DecodeOver(r, m), m.endpoint # "item"
  PROVE  /\ DecodingShape(d)
         /\ d.fault = NoFault =>
              /\ \A f \in Fields : d.req.field[f] =
                   IF f \in DOMAIN FilesSay(m) THEN FilesSay(m)[f]
                   ELSE IF f \in DOMAIN BodySays(m) THEN BodySays(m)[f]
                   ELSE IF f \in DOMAIN ValuesLayer(m.query.values)
                   THEN ValuesLayer(m.query.values)[f] ELSE r.field[f]
              /\ Keys(m) \subseteq Harmless(m)
<1> DEFINE q == ApplyValues(r, m.query.values)
           L == ValuesLayer(m.query.values)
<1>0. DOMAIN << >> = {}
  OBVIOUS
<1>1. /\ ClientFault(Fault(400, "BAD_REQUEST", Empty))
      /\ \A f : ClientFault(f) => DecodingShape(Refused(r, f)) /\ Refused(r, f).fault # NoFault
  BY FaultShape, DecodingParts DEF ClientFault, DecodingShape
<1>2. /\ DecodingShape(q)
      /\ q.fault = NoFault => Laid(q.req, r, L) /\ DOMAIN m.query.values \subseteq Fields \cup PayloadKeys
  BY MessageShape, ValuesApplied
<1>3. \/ d = Refused(r, Fault(400, "BAD_REQUEST", Empty))
      \/ (q.fault # NoFault \/ ~Bodied(m)) /\ d = q
      \/ q.fault = NoFault /\ Bodied(m) /\ d \in ApplyBody(q.req, m.body)
  BY DEF DecodeOver, Bodied
<1>4. Keys(m) = DOMAIN m.query.values \cup IF Bodied(m) THEN BodyKeys(m.body) ELSE {}
  BY DEF Keys, BodyKeys
<1> HIDE DEF q, L
<1>5. CASE d = Refused(r, Fault(400, "BAD_REQUEST", Empty))
  BY <1>1, <1>5
<1>6. CASE q.fault # NoFault /\ d = q
  BY <1>2, <1>6
<1>7. CASE q.fault = NoFault /\ ~Bodied(m) /\ d = q
  <2>1. DOMAIN FilesSay(m) = {} /\ DOMAIN BodySays(m) = {}
    BY <1>0, <1>7 DEF FilesSay, BodySays
  <2>. QED BY <1>2, <1>4, <1>7, <2>1 DEF Laid, L, Harmless
<1>8. CASE q.fault = NoFault /\ Bodied(m) /\ d \in ApplyBody(q.req, m.body)
  <2>1. /\ DecodingShape(d)
        /\ d.fault = NoFault =>
             /\ \A f \in Fields : d.req.field[f] =
                  IF f \in DOMAIN Upper(m.body) THEN Upper(m.body)[f]
                  ELSE IF f \in DOMAIN BodyLayer(m.body) THEN BodyLayer(m.body)[f] ELSE q.req.field[f]
             /\ BodyKeys(m.body) \subseteq Fields \cup PayloadKeys
                  \cup {k \in {"payload"} : m.body.type = "json"}
    BY <1>2, <1>8, MessageShape, BodyApplied DEF DecodingShape
  <2>2. FilesSay(m) = Upper(m.body) /\ BodySays(m) = BodyLayer(m.body)
    BY <1>8 DEF FilesSay, BodySays
  <2>3. d.fault = NoFault => Keys(m) \subseteq Harmless(m)
    BY <1>2, <1>4, <1>8, <2>1 DEF Harmless
  <2>. QED BY <1>2, <1>8, <2>1, <2>2, <2>3 DEF Laid, L
<1>. QED BY <1>3, <1>5, <1>6, <1>7, <1>8

\* Of four layers, or three, the last that speaks decides.
LEMMA LastOfFour ==
  ASSUME NEW a, NEW b, NEW c, NEW e, NEW f, NEW layers, layers = <<a, b, c, e>>
  PROVE  LET heard == {i \in DOMAIN layers : f \in DOMAIN layers[i]}
         IN  /\ heard = {} <=> /\ f \notin DOMAIN a /\ f \notin DOMAIN b
                               /\ f \notin DOMAIN c /\ f \notin DOMAIN e
             /\ heard # {} => layers[CHOOSE i \in heard : \A j \in heard : j <= i][f] =
                  IF f \in DOMAIN e THEN e[f] ELSE IF f \in DOMAIN c THEN c[f]
                  ELSE IF f \in DOMAIN b THEN b[f] ELSE a[f]
<1> DEFINE heard == {i \in DOMAIN layers : f \in DOMAIN layers[i]}
           top == CHOOSE i \in heard : \A j \in heard : j <= i
<1>1. DOMAIN layers = 1 .. 4 /\ layers[1] = a /\ layers[2] = b /\ layers[3] = c /\ layers[4] = e
  OBVIOUS
<1>2. \A i : i \in heard <=> i \in {1, 2, 3, 4} /\ f \in DOMAIN layers[i]
  <2>1. 1 .. 4 = {1, 2, 3, 4}
    OBVIOUS
  <2>. QED BY <1>1, <2>1
<1> HIDE DEF heard
<1>3. heard = {} <=> /\ f \notin DOMAIN a /\ f \notin DOMAIN b
                     /\ f \notin DOMAIN c /\ f \notin DOMAIN e
  BY <1>1, <1>2
<1>4. ASSUME heard # {}
      PROVE  layers[top][f] = IF f \in DOMAIN e THEN e[f] ELSE IF f \in DOMAIN c THEN c[f]
                              ELSE IF f \in DOMAIN b THEN b[f] ELSE a[f]
  <2>1. \E i \in heard : \A j \in heard : j <= i
    BY <1>2, <1>4
  <2>2. top \in heard /\ \A j \in heard : j <= top
    BY <2>1
  <2> HIDE DEF top
  <2>3. top \in {1, 2, 3, 4} /\ f \in DOMAIN layers[top]
    BY <1>2, <2>2
  <2>4. \A j \in {1, 2, 3, 4} : f \in DOMAIN layers[j] => j <= top
    BY <1>2, <2>2
  <2>. QED BY <1>1, <2>3, <2>4
<1>. QED BY <1>3, <1>4 DEF heard, top

LEMMA LastOfThree ==
  ASSUME NEW a, NEW b, NEW c, NEW f, NEW layers, layers = <<a, b, c>>
  PROVE  LET heard == {i \in DOMAIN layers : f \in DOMAIN layers[i]}
         IN  /\ heard = {} <=> f \notin DOMAIN a /\ f \notin DOMAIN b /\ f \notin DOMAIN c
             /\ heard # {} => layers[CHOOSE i \in heard : \A j \in heard : j <= i][f] =
                  IF f \in DOMAIN c THEN c[f] ELSE IF f \in DOMAIN b THEN b[f] ELSE a[f]
<1> DEFINE heard == {i \in DOMAIN layers : f \in DOMAIN layers[i]}
           top == CHOOSE i \in heard : \A j \in heard : j <= i
<1>1. DOMAIN layers = 1 .. 3 /\ layers[1] = a /\ layers[2] = b /\ layers[3] = c
  OBVIOUS
<1>2. \A i : i \in heard <=> i \in {1, 2, 3} /\ f \in DOMAIN layers[i]
  <2>1. 1 .. 3 = {1, 2, 3}
    OBVIOUS
  <2>. QED BY <1>1, <2>1
<1> HIDE DEF heard
<1>3. heard = {} <=> f \notin DOMAIN a /\ f \notin DOMAIN b /\ f \notin DOMAIN c
  BY <1>1, <1>2
<1>4. ASSUME heard # {}
      PROVE  layers[top][f] = IF f \in DOMAIN c THEN c[f] ELSE IF f \in DOMAIN b THEN b[f] ELSE a[f]
  <2>1. \E i \in heard : \A j \in heard : j <= i
    BY <1>2, <1>4
  <2>2. top \in heard /\ \A j \in heard : j <= top
    BY <2>1
  <2> HIDE DEF top
  <2>3. top \in {1, 2, 3} /\ f \in DOMAIN layers[top]
    BY <1>2, <2>2
  <2>4. \A j \in {1, 2, 3} : f \in DOMAIN layers[j] => j <= top
    BY <1>2, <2>2
  <2>. QED BY <1>1, <2>3, <2>4
<1>. QED BY <1>3, <1>4 DEF heard, top

\* The first layer is the preset's, the third of an item is its own.
PresetSays(m) == IF m.endpoint = "preset" /\ m.path \in DOMAIN Presets
                 THEN OptionsLayer(Presets[m.path]) ELSE << >>
ItemSays(item) == [f \in {g \in {"type", "data"} : item[g] # Text(Empty)} |-> item[f]]

LEMMA SaidByCall ==
  ASSUME NEW m \in Messages, m.endpoint # "item", NEW f
  PROVE  Said(m, f) = IF f \in DOMAIN FilesSay(m) THEN FilesSay(m)[f]
                      ELSE IF f \in DOMAIN BodySays(m) THEN BodySays(m)[f]
                      ELSE IF f \in DOMAIN ValuesLayer(m.query.values)
                      THEN ValuesLayer(m.query.values)[f]
                      ELSE IF f \in DOMAIN PresetSays(m) THEN PresetSays(m)[f] ELSE Implied(f)
<1> DEFINE a == PresetSays(m)
           b == ValuesLayer(m.query.values)
           c == BodySays(m)
           e == FilesSay(m)
           layers == Layers(m)
           heard == {i \in DOMAIN layers : f \in DOMAIN layers[i]}
<1>1. layers = <<a, b, c, e>>
  BY DEF Layers, PresetSays, BodySays, FilesSay, Upper, FilesLayer
<1>2. Said(m, f) = IF heard = {} THEN Implied(f)
                   ELSE layers[CHOOSE i \in heard : \A j \in heard : j <= i][f]
  BY DEF Said
<1> HIDE DEF a, b, c, e, layers
<1>3. /\ heard = {} <=> /\ f \notin DOMAIN a /\ f \notin DOMAIN b
                        /\ f \notin DOMAIN c /\ f \notin DOMAIN e
      /\ heard # {} => layers[CHOOSE i \in heard : \A j \in heard : j <= i][f] =
           IF f \in DOMAIN e THEN e[f] ELSE IF f \in DOMAIN c THEN c[f]
           ELSE IF f \in DOMAIN b THEN b[f] ELSE a[f]
  BY <1>1, LastOfFour
<1> HIDE DEF heard
<1>. QED BY <1>2, <1>3 DEF a, b, c, e

LEMMA SaidByItem ==
  ASSUME NEW m \in Messages, m.endpoint = "item", NEW f
  PROVE  Said(m, f) = IF f \in DOMAIN ItemSays(m.item) THEN ItemSays(m.item)[f]
                      ELSE IF f \in DOMAIN OptionsLayer(m.item.options)
                      THEN OptionsLayer(m.item.options)[f]
                      ELSE IF f \in DOMAIN OptionsLayer(m.item.defaults)
                      THEN OptionsLayer(m.item.defaults)[f] ELSE Implied(f)
<1> DEFINE a == OptionsLayer(m.item.defaults)
           b == OptionsLayer(m.item.options)
           c == ItemSays(m.item)
           layers == Layers(m)
           heard == {i \in DOMAIN layers : f \in DOMAIN layers[i]}
<1>1. layers = <<a, b, c>>
  BY DEF Layers, ItemSays
<1>2. Said(m, f) = IF heard = {} THEN Implied(f)
                   ELSE layers[CHOOSE i \in heard : \A j \in heard : j <= i][f]
  BY DEF Said
<1> HIDE DEF a, b, c, layers
<1>3. /\ heard = {} <=> f \notin DOMAIN a /\ f \notin DOMAIN b /\ f \notin DOMAIN c
      /\ heard # {} => layers[CHOOSE i \in heard : \A j \in heard : j <= i][f] =
           IF f \in DOMAIN c THEN c[f] ELSE IF f \in DOMAIN b THEN b[f] ELSE a[f]
  BY <1>1, LastOfThree
<1> HIDE DEF heard
<1>. QED BY <1>2, <1>3 DEF a, b, c

\* A preset's options lie under what its request says.
LEMMA PresetApplied ==
  ASSUME NEW m \in Messages, m.endpoint = "preset", NEW d \in PresetRequest(m)
  PROVE  /\ DecodingShape(d)
         /\ d.fault = NoFault => /\ \A f \in Fields : d.req.field[f] = Said(m, f)
                                 /\ Keys(m) \subseteq Harmless(m)
<1> DEFINE base == NewRequest("qr")
           p == ApplyOptions(base, Presets[m.path])
<1>1. ReqShape(base) /\ \A f \in Fields : base.field[f] = Implied(f)
  BY NewShape DEF Implied
<1> HIDE DEF base
<1>2. CASE m.path \notin DOMAIN Presets
  <2>1. d = Refused(base, Fault(404, "NOT_FOUND", "preset"))
    BY <1>2 DEF PresetRequest, base
  <2>. QED BY <1>1, <2>1, FaultShape, DecodingParts DEF ClientFault, DecodingShape
<1>3. CASE m.path \in DOMAIN Presets
  <2>1. DOMAIN Presets[m.path] \subseteq Written
    BY <1>3, MessagesAssumption, Zenon DEF Written
  <2>2. /\ DecodingShape(p)
        /\ p.fault = NoFault => Laid(p.req, base, OptionsLayer(Presets[m.path]))
    BY <1>1, <2>1, OptionsApplied
  <2>3. \/ p.fault # NoFault /\ d = p
        \/ p.fault = NoFault /\ d \in DecodeOver(p.req, m)
    BY <1>3 DEF PresetRequest, base
  <2>4. PresetSays(m) = OptionsLayer(Presets[m.path])
    BY <1>3 DEF PresetSays
  <2> HIDE DEF p
  <2>5. CASE p.fault = NoFault /\ d \in DecodeOver(p.req, m)
    <3>1. m.endpoint # "item" /\ ReqShape(p.req)
      BY <2>2 DEF DecodingShape
    <3>2. /\ DecodingShape(d)
          /\ d.fault = NoFault =>
               /\ \A f \in Fields : d.req.field[f] =
                    IF f \in DOMAIN FilesSay(m) THEN FilesSay(m)[f]
                    ELSE IF f \in DOMAIN BodySays(m) THEN BodySays(m)[f]
                    ELSE IF f \in DOMAIN ValuesLayer(m.query.values)
                    THEN ValuesLayer(m.query.values)[f] ELSE p.req.field[f]
               /\ Keys(m) \subseteq Harmless(m)
      BY <2>5, <3>1, DecodeOverApplied
    <3>3. \A f \in Fields : p.req.field[f] = IF f \in DOMAIN PresetSays(m) THEN PresetSays(m)[f]
                                             ELSE Implied(f)
      BY <1>1, <2>2, <2>4, <2>5 DEF Laid
    <3>. QED BY <3>1, <3>2, <3>3, SaidByCall
  <2>. QED BY <2>2, <2>3, <2>5
<1>. QED BY <1>2, <1>3

\* An item's own members lie over its options, and these over its batch's.
LEMMA ItemApplied ==
  ASSUME NEW m \in Messages, m.endpoint = "item"
  PROVE  LET d == ItemRequest(m.item)
         IN  /\ DecodingShape(d)
             /\ d.fault = NoFault => /\ \A f \in Fields : d.req.field[f] = Said(m, f)
                                     /\ Keys(m) \subseteq Harmless(m)
<1> DEFINE base == NewRequest("qr")
           item == m.item
           d == ApplyOptions(base, item.defaults)
           o == ApplyOptions(d.req, item.options)
           own == [field   |-> [f \in Fields |-> IF f \in {"type", "data"} /\ item[f] # Text(Empty)
                                               THEN item[f] ELSE o.req.field[f]],
                   payload |-> IF item.data # Text(Empty) /\ item.type = Text(Empty) THEN NoPayload
                               ELSE IF item.payload.given THEN item.payload ELSE o.req.payload]
<1>1. ReqShape(base) /\ \A f \in Fields : base.field[f] = Implied(f)
  BY NewShape DEF Implied
<1>2. ItemRequest(item) = IF d.fault # NoFault THEN d ELSE IF o.fault # NoFault THEN o ELSE Decoded(own)
  BY DEF ItemRequest
<1> HIDE DEF base
<1>3. /\ DecodingShape(d)
      /\ d.fault = NoFault => /\ Laid(d.req, base, OptionsLayer(item.defaults))
                              /\ DOMAIN item.defaults \subseteq Fields \cup PayloadKeys
  BY <1>1, MessageShape, OptionsApplied
<1> HIDE DEF d
<1>4. /\ DecodingShape(o)
      /\ o.fault = NoFault => /\ Laid(o.req, d.req, OptionsLayer(item.options))
                              /\ DOMAIN item.options \subseteq Fields \cup PayloadKeys
  BY <1>3, MessageShape, OptionsApplied DEF DecodingShape
<1> DEFINE r == o.req
<1> HIDE DEF o
<1>5. ReqShape(r)
  BY <1>4 DEF DecodingShape
<1>6. /\ own.field = [f \in Fields |-> IF f \in {"type", "data"} /\ item[f] # Text(Empty)
                                      THEN item[f] ELSE r.field[f]]
      /\ own.payload = IF item.data # Text(Empty) /\ item.type = Text(Empty) THEN NoPayload
                       ELSE IF item.payload.given THEN item.payload ELSE r.payload
      /\ own = [field |-> own.field, payload |-> own.payload]
  OBVIOUS
<1> HIDE DEF own
<1>7. \A f : /\ f \in DOMAIN ItemSays(item) <=> f \in {"type", "data"} /\ item[f] # Text(Empty)
             /\ f \in DOMAIN ItemSays(item) => ItemSays(item)[f] = item[f]
  BY DEF ItemSays
<1>8. own.payload.given \in BOOLEAN /\ DOMAIN own.payload.member \subseteq PayloadKeys
  <2>1. /\ item.payload.given \in BOOLEAN /\ DOMAIN item.payload.member \subseteq PayloadKeys
        /\ r.payload.given \in BOOLEAN /\ DOMAIN r.payload.member \subseteq PayloadKeys
    BY <1>5, MessageShape DEF ReqShape
  <2>. QED BY <1>6, <2>1, NoPayloadShape
<1>9. ReqShape(own) /\ \A f \in Fields : own.field[f] =
        IF f \in DOMAIN ItemSays(item) THEN ItemSays(item)[f] ELSE r.field[f]
  <2>1. own.field = [f \in Fields |-> own.field[f]]
    BY <1>6
  <2>2. \A f \in Fields : own.field[f] =
          IF f \in DOMAIN ItemSays(item) THEN ItemSays(item)[f] ELSE r.field[f]
    BY <1>6, <1>7
  <2>. QED BY <1>6, <1>8, <2>1, <2>2 DEF ReqShape
<1>10. CASE d.fault # NoFault
  BY <1>2, <1>3, <1>10
<1>11. CASE d.fault = NoFault /\ o.fault # NoFault
  BY <1>2, <1>4, <1>11
<1>12. CASE d.fault = NoFault /\ o.fault = NoFault
  <2>1. ItemRequest(item) = Decoded(own)
    BY <1>2, <1>12
  <2>2. \A f \in Fields : own.field[f] = Said(m, f)
    BY <1>1, <1>3, <1>4, <1>9, <1>12, SaidByItem DEF Laid
  <2>3. Keys(m) \subseteq Harmless(m)
    BY <1>3, <1>4, <1>12 DEF Keys, Harmless
  <2>. QED BY <1>9, <2>1, <2>2, <2>3, DecodingParts DEF DecodingShape
<1>. QED BY <1>10, <1>11, <1>12

\* What a message is decoded to is what it says, whichever way it comes; only
\* the path may overrule it.
LEMMA DecodingsHonour ==
  ASSUME NEW m \in Messages, NEW d \in Decodings(m)
  PROVE  /\ DecodingShape(d) /\ ReqShape(Settle(m, d.req))
         /\ d.fault = NoFault =>
              /\ \A f \in Fields : PathDecides(m, f) \/ Settle(m, d.req).field[f] = Said(m, f)
              /\ Keys(m) \subseteq Harmless(m)
<1>1. /\ DecodingShape(d)
      /\ d.fault = NoFault =>
           /\ \A f \in Fields : PathDecides(m, f) \/ d.req.field[f] = Said(m, f)
           /\ Keys(m) \subseteq Harmless(m)
  <2>1. CASE m.endpoint = "item"
    BY <2>1, ItemApplied DEF Decodings
  <2>2. CASE m.endpoint = "preset"
    BY <2>2, PresetApplied DEF Decodings
  <2>3. CASE m.endpoint \notin {"item", "preset"}
    <3>1. PICK s : /\ d \in DecodeOver(NewRequest(s), m)
                   /\ m.endpoint # "barcode" => s = "qr"
      BY <2>3 DEF Decodings
    <3> DEFINE r == NewRequest(s)
    <3>2. ReqShape(r) /\ \A f \in Fields : PathDecides(m, f) \/ r.field[f] = Implied(f)
      BY <3>1, NewShape DEF Implied, PathDecides
    <3> HIDE DEF r
    <3>3. /\ DecodingShape(d)
          /\ d.fault = NoFault =>
               /\ \A f \in Fields : d.req.field[f] =
                    IF f \in DOMAIN FilesSay(m) THEN FilesSay(m)[f]
                    ELSE IF f \in DOMAIN BodySays(m) THEN BodySays(m)[f]
                    ELSE IF f \in DOMAIN ValuesLayer(m.query.values)
                    THEN ValuesLayer(m.query.values)[f] ELSE r.field[f]
               /\ Keys(m) \subseteq Harmless(m)
      BY <2>3, <3>1, <3>2, DecodeOverApplied DEF r
    <3>4. DOMAIN PresetSays(m) = {}
      <4>1. DOMAIN << >> = {}
        OBVIOUS
      <4>. QED BY <2>3, <4>1 DEF PresetSays
    <3>. QED BY <2>3, <3>2, <3>3, <3>4, SaidByCall
  <2>. QED BY <2>1, <2>2, <2>3
<1> DEFINE r == d.req
           s == Settle(m, r)
<1>2. ReqShape(r)
  BY <1>1 DEF DecodingShape
<1>3. \/ s = r
      \/ m.endpoint \in {"qr", "barcode"} /\ \E v : s = [r EXCEPT !.field["symbology"] = v]
      \/ m.endpoint = "build" /\ \E v : s = [r EXCEPT !.field["type"] = v]
  BY DEF Settle
<1> HIDE DEF r, s
<1>4. ASSUME NEW k \in Fields, NEW v, s = [r EXCEPT !.field[k] = v], PathDecides(m, k)
      PROVE  ReqShape(s) /\ \A f \in Fields : PathDecides(m, f) \/ s.field[f] = r.field[f]
  BY <1>2, <1>4, WithField
<1>5. ReqShape(s) /\ \A f \in Fields : PathDecides(m, f) \/ s.field[f] = r.field[f]
  BY <1>2, <1>3, <1>4, KeySets DEF PathDecides
<1>. QED BY <1>1, <1>5 DEF r, s

-----------------------------------------------------------------------------
(* A request through its stages (module Pipeline).                         *)

\* The logo is fetched between style and frame, and what it was decides what
\* its fetch can end as.
LogoKinds ==
  /\ stage = "idle" => outcome = Pending
  /\ outcome = "inline" => ref.kind = "data"
  /\ outcome = "ok" => ref.kind = "remote"

FetchHolds == FetchInv /\ TimeLeft /\ LogoKinds

\* style names the logo to fetch before its fetch begins.
NamesLogo ==
  /\ stage = "idle" /\ ref' \in Refs
  /\ UNCHANGED <<stage, dns, pinned, dialled, reply, got, elapsed, outcome>>

LEMMA PendingIs == Pending # "inline" /\ Pending # "ok" /\ Pending \in Outcomes
BY DEF Pending, Outcomes

LEMMA LogoKindsStep ==
  ASSUME FetchInv, LogoKinds, [FetchNext]_fetchVars PROVE LogoKinds'
<1>0. stage \in {"guard", "pin", "dial", "header", "body", "sniff"} => ref.kind = "remote"
  BY DEF FetchInv, Admitted
<1> USE DEF LogoKinds, Give
<1>1. CASE ResolveLogo
  BY <1>1 DEF ResolveLogo
<1>2. CASE Guard \/ Rebind
  BY <1>2 DEF Guard, Rebind
<1>3. CASE PinLiteral \/ \E d \in Nat : PinName(d)
  BY <1>3 DEF PinLiteral, PinName, Vet
<1>4. CASE \E d \in Nat : Dial(d) \/ \E r \in Replies : Header(r, d)
  BY <1>4 DEF Dial, Header
<1>5. CASE \E d \in Nat : \E n \in Nat \ {0} : Read(n, d)
  BY <1>5 DEF Read
<1>6. CASE ReadFails \/ ReadEnds \/ Sniff \/ Abandon
  BY <1>0, <1>6 DEF ReadFails, ReadEnds, Sniff, Abandon
<1>7. CASE UNCHANGED fetchVars
  BY <1>7 DEF fetchVars
<1> QED
  BY <1>1, <1>2, <1>3, <1>4, <1>5, <1>6, <1>7 DEF FetchNext, FetchStep, FetchWork

LEMMA FetchHoldsInit == FetchInit => FetchHolds
<1> SUFFICES ASSUME FetchInit PROVE FetchHolds
  OBVIOUS
<1>1. outcome = Pending
  BY DEF FetchInit
<1>2. LogoKinds
  BY <1>1, PendingIs DEF LogoKinds
<1>. QED BY <1>2, FetchInitInv, TimeLeftInit DEF FetchHolds

\* The fetch keeps what it promises inside a request, which names its logo.
LEMMA FetchHoldsStep ==
  ASSUME FetchHolds, [FetchNext]_fetchVars \/ NamesLogo PROVE FetchHolds'
<1>1. CASE [FetchNext]_fetchVars
  BY <1>1, FetchInvStep, TimeLeftStep, LogoKindsStep DEF FetchHolds, FetchInv
<1>2. CASE NamesLogo
  <2>1. /\ stage = "idle" /\ dialled = << >> /\ outcome = Pending
        /\ UNCHANGED <<stage, dns, pinned, dialled, reply, got, elapsed, outcome>> /\ ref' \in Refs
    BY <1>2 DEF NamesLogo, FetchHolds, FetchInv, PinnedVetted, LogoKinds
  <2>2. ~\E i \in DOMAIN dialled : TRUE
    BY <2>1, NothingYet, Zenon
  <2>3. FetchTypeOK' /\ ReadBounded' /\ PinnedVetted' /\ WholeImage' /\ OneConnection'
    BY <2>1 DEF FetchHolds, FetchInv, FetchTypeOK, ReadBounded, PinnedVetted, WholeImage, OneConnection
  <2>4. Admitted' /\ DialsVetted'
    BY <2>1, <2>2 DEF Admitted, DialsVetted
  <2>5. TimeLeft' /\ LogoKinds'
    BY <2>1, PendingIs DEF FetchHolds, TimeLeft, LogoKinds
  <2>. QED BY <2>3, <2>4, <2>5 DEF FetchHolds, FetchInv
<1>. QED BY <1>1, <1>2

\* How far the deadline has been overrun, by where the request stands.
LateSoFar ==
  /\ expired \in BOOLEAN /\ late \in 0 .. 2
  /\ ~expired => late = 0
  /\ phase \in {"received", "build", "encode", "style", "write"} => late = 0
  /\ phase # "done" => late <= 1
  /\ response.kind # "fault" => late <= 1

\* A fault is the answer, and nothing is answered before the end.
Answered ==
  /\ fault # NoFault <=> response.kind = "fault"
  /\ phase = "done" <=> response # NoResponse

\* A request that was accepted says what its message says.
Heard ==
  phase # "received" /\ fault = NoFault =>
    /\ \A f \in Fields : PathDecides(msg, f) \/ Field(f) = Said(msg, f)
    /\ Keys(msg) \subseteq Harmless(msg)

\* Past build the data to encode is the one stated intent.
BuiltOnce ==
  phase \notin {"received", "build"} /\ fault = NoFault => BuildFault = NoFault /\ encoded = Built

FaultsFounded ==
  /\ DefaultLevelNeverRefuses /\ InternalOnlyForRaw
  /\ fault.code = "UNSCANNABLE" => cfg.strict = "strict" /\ grade = "unscannable"

\* An image that was written, and one that was drawn.
Served == \/ phase = "serve"
          \/ phase = "done" /\ fault = NoFault /\ msg.endpoint # "build"
Styled == phase \in {"frame", "render", "write"} \/ Served

Judged == Served => ~Unscannable

Branded ==
  /\ phase \in {"received", "build", "encode", "style"} => stage = "idle"
  /\ phase = "logo" => /\ Field("style.logo") # Text(Empty)
                       /\ ref = LogoRefs[Field("style.logo").core]
  /\ Styled /\ Field("style.logo") # Text(Empty) =>
       /\ outcome \in {"ok", "inline"} /\ ref = LogoRefs[Field("style.logo").core]
       /\ Field("style.logo").core \notin BadImages

PipelineShape == phase \in Phases /\ grade \in Grades /\ msg \in Messages /\ ReqShape(req)

PipelineInv ==
  /\ PipelineShape /\ LateSoFar /\ Answered /\ Heard /\ BuiltOnce
  /\ FaultsFounded /\ Judged /\ Branded /\ FetchHolds

LEMMA NoFaultIs ==
  /\ NoFault.code # "UNSUPPORTED_OPTION" /\ NoFault.code # "UNSCANNABLE" /\ NoFault.status # 500
  /\ NoResponse.kind # "fault" /\ NoResponse.status = 0
BY DEF NoFault, Empty, NoResponse

LEMMA PipelineBegins == Init => PipelineInv
<1> SUFFICES ASSUME Init PROVE PipelineInv
  OBVIOUS
<1>1. /\ phase = "received" /\ msg \in Messages /\ req = NewRequest("qr") /\ expired = FALSE
      /\ late = 0 /\ grade = "excellent" /\ fault = NoFault /\ response = NoResponse
      /\ FetchInit /\ stage = "idle"
  BY DEF Init, FetchInit
<1>2. PipelineShape
  BY <1>1, NewShape DEF PipelineShape, Phases, Grades
<1>3. LateSoFar /\ Answered
  <2>1. response.kind # "fault" /\ expired \in BOOLEAN /\ late = 0
    BY <1>1, NoFaultIs
  <2>2. LateSoFar
    BY <2>1 DEF LateSoFar
  <2>3. Answered
    BY <1>1, <2>1 DEF Answered
  <2>. QED BY <2>2, <2>3
<1>4. Heard /\ BuiltOnce /\ Judged /\ Branded
  BY <1>1 DEF Heard, BuiltOnce, Judged, Branded, Served, Styled
<1>5. FaultsFounded
  BY <1>1, NoFaultIs DEF FaultsFounded, DefaultLevelNeverRefuses, InternalOnlyForRaw
<1>. QED BY <1>1, <1>2, <1>3, <1>4, <1>5, FetchHoldsInit DEF PipelineInv

\* A fault a stage may answer without a claim that anything must back.
Plain(f) == /\ f # NoFault /\ f.status # 500 /\ f.code # "UNSCANNABLE"
            /\ f.code = "UNSUPPORTED_OPTION" => f.field # "encode"

LEMMA PlainFaults ==
  /\ \A f : ClientFault(f) => Plain(f)
  /\ Plain(TimeoutFault) /\ Plain(ShapeFault)
  /\ ColourFault # NoFault => Plain(ColourFault)
  /\ FrameFault # NoFault => Plain(FrameFault)
  /\ WriteFault # NoFault => Plain(WriteFault)
  /\ Plain(Fault(400, "INVALID_VALUE", "style.logo"))
  /\ \A o : Plain(Fault(LogoFault(o)[1], LogoFault(o)[2], "style.logo"))
<1> USE FaultShape DEF Plain
<1>1. \A f : ClientFault(f) => Plain(f)
  BY DEF ClientFault
<1>2. Plain(TimeoutFault) /\ Plain(ShapeFault)
  BY DEF TimeoutFault, ShapeFault
<1>3. ColourFault # NoFault => Plain(ColourFault)
  BY DEF ColourFault
<1>4. FrameFault # NoFault => Plain(FrameFault)
  BY DEF FrameFault
<1>5. WriteFault # NoFault => Plain(WriteFault)
  BY DEF WriteFault
<1>6. Plain(Fault(400, "INVALID_VALUE", "style.logo"))
  OBVIOUS
<1>7. ASSUME NEW o PROVE Plain(Fault(LogoFault(o)[1], LogoFault(o)[2], "style.logo"))
  <2>1. LogoFault(o)[1] \in {400, 403, 413, 501, 504} /\ LogoFault(o)[2] # "UNSCANNABLE"
    BY DEF LogoFault
  <2>. QED BY <2>1
<1>. QED BY <1>1, <1>2, <1>3, <1>4, <1>5, <1>6, <1>7

\* What the other faults rest on.
LEMMA BuildFaultFounded ==
  BuildFault # NoFault =>
    /\ BuildFault.code # "UNSUPPORTED_OPTION" /\ BuildFault.code # "UNSCANNABLE"
    /\ BuildFault.status = 500 => /\ Field("type") = Text("raw") /\ req.payload.given
                                  /\ ~Given("payload.data")
BY FaultShape DEF BuildFault

LEMMA EncodeFaultFounded ==
  EncodeFault # NoFault =>
    /\ EncodeFault.code # "UNSCANNABLE" /\ EncodeFault.status # 500
    /\ EncodeFault.code = "UNSUPPORTED_OPTION" /\ EncodeFault.field = "encode" =>
         \/ Field("encode.ecc") # Text(Empty)
         \/ Field("encode.version") \notin {Text("auto"), Text("0")}
<1> DEFINE sym == Field("symbology").core
           codes == {"UNKNOWN_SYMBOLOGY", "SYMBOLOGY_UNAVAILABLE", "INVALID_DATA", "DATA_TOO_LONG"}
<1>1. \/ EncodeFault = NoFault
      \/ \E s \in {400, 501}, c \in codes, k \in {"symbology", "data"} : EncodeFault = Fault(s, c, k)
      \/ /\ EncodeFault = Fault(400, "UNSUPPORTED_OPTION", "encode")
         /\ \/ Field("encode.version") \notin {Text("auto"), Text("0")}
            \/ EccFor(sym) \notin Symbologies[sym].levels \cup {Empty}
  <2>1. \A s \in DOMAIN Symbologies : \A d \in DOMAIN Symbologies[s].refuses :
          Symbologies[s].refuses[d] \in {"INVALID_DATA", "DATA_TOO_LONG"}
    BY StagesAssumption
  <2>. QED BY <2>1 DEF EncodeFault
<1>2. Field("encode.ecc") = Text(Empty) => EccFor(sym) \in Symbologies[sym].levels \cup {Empty}
  BY DEF EccFor
<1>. QED BY <1>1, <1>2, FaultShape

\* Before its end a request has no fault and no answer.
LEMMA OpenStill ==
  ASSUME PipelineInv, phase # "done" PROVE fault = NoFault /\ response = NoResponse
BY NoFaultIs DEF PipelineInv, Answered

\* A fault answers, and promises nothing of the request.
LEMMA FailStep ==
  ASSUME NEW f, Fail(f), f # NoFault,
         f.code = "UNSUPPORTED_OPTION" /\ f.field = "encode" =>
            \/ Field("encode.ecc")' # Text(Empty)
            \/ Field("encode.version")' \notin {Text("auto"), Text("0")},
         f.status = 500 => /\ Field("type")' = Text("raw") /\ req'.payload.given
                           /\ ~Given("payload.data")',
         f.code = "UNSCANNABLE" => cfg'.strict = "strict" /\ grade' = "unscannable"
  PROVE  Answered' /\ Heard' /\ BuiltOnce' /\ FaultsFounded' /\ Judged' /\ Branded'
<1>1. /\ phase' = "done" /\ fault' = f /\ fault' # NoFault
      /\ response' = [kind |-> "fault", status |-> f.status] /\ response'.kind = "fault"
  BY DEF Fail
<1>2. response' # NoResponse
  BY <1>1, NoFaultIs
<1>3. Answered'
  BY <1>1, <1>2 DEF Answered
<1>4. Heard' /\ BuiltOnce' /\ Judged' /\ Branded'
  BY <1>1 DEF Heard, BuiltOnce, Judged, Branded, Served, Styled
<1>5. FaultsFounded'
  BY <1>1 DEF FaultsFounded, DefaultLevelNeverRefuses, InternalOnlyForRaw
<1>. QED BY <1>3, <1>4, <1>5

LEMMA PlainFails ==
  ASSUME NEW f, Fail(f), Plain(f)
  PROVE  Answered' /\ Heard' /\ BuiltOnce' /\ FaultsFounded' /\ Judged' /\ Branded'
BY FailStep DEF Plain

\* Going on answers nothing.
LEMMA GoStep ==
  ASSUME PipelineInv, phase # "done", NEW p, p # "done", Go(p)
  PROVE  Answered' /\ FaultsFounded' /\ fault' = NoFault /\ response' = NoResponse /\ phase' = p
<1>1. /\ fault' = NoFault /\ response' = NoResponse /\ phase' = p
      /\ response'.kind # "fault"
  BY OpenStill, NoFaultIs DEF Go
<1>2. Answered'
  BY <1>1 DEF Answered
<1>3. FaultsFounded'
  BY <1>1, NoFaultIs DEF FaultsFounded, DefaultLevelNeverRefuses, InternalOnlyForRaw
<1>. QED BY <1>1, <1>2, <1>3

\* What the request is built to depends on nothing else.
LEMMA SameRequest ==
  ASSUME UNCHANGED req
  PROVE  /\ BuildFault' = BuildFault /\ Built' = Built
         /\ \A f : Field(f)' = Field(f)
         /\ \A k : Given(k)' = Given(k)
BY DEF BuildFault, Built, Field, HasType, Given

LEMMA HeardKept ==
  ASSUME Heard, UNCHANGED <<req, msg>>, phase # "received", fault = NoFault PROVE Heard'
<1>1. (\A f \in Fields : PathDecides(msg, f) \/ Field(f) = Said(msg, f))
      /\ Keys(msg) \subseteq Harmless(msg)
  BY DEF Heard
<1>. QED BY <1>1, SameRequest DEF Heard

LEMMA FetchAsItWas ==
  ASSUME PipelineInv, UNCHANGED fetchVars PROVE FetchHolds' /\ UNCHANGED <<stage, outcome, ref>>
BY FetchHoldsStep DEF PipelineInv, fetchVars

LEMMA AcceptKeeps == ASSUME PipelineInv, Accept PROVE PipelineInv'
<1>1. PICK d \in Decodings(msg) :
        /\ req' = Settle(msg, d.req)
        /\ IF d.fault # NoFault THEN Fail(d.fault) ELSE Go("build")
  BY DEF Accept
<1>2. /\ phase = "received" /\ UNCHANGED <<cfg, msg, encoded, expired, late, grade>>
      /\ UNCHANGED fetchVars
  BY DEF Accept
<1>3. msg \in Messages
  BY DEF PipelineInv, PipelineShape
<1>4. /\ DecodingShape(d) /\ ReqShape(req')
      /\ d.fault = NoFault =>
           /\ \A f \in Fields : PathDecides(msg, f) \/ req'.field[f] = Said(msg, f)
           /\ Keys(msg) \subseteq Harmless(msg)
  BY <1>1, <1>3, DecodingsHonour
<1>5. FetchHolds' /\ UNCHANGED <<stage, outcome, ref>>
  BY <1>2, FetchAsItWas
<1>6. late = 0 /\ (~expired => late = 0) /\ expired \in BOOLEAN
  BY <1>2 DEF PipelineInv, LateSoFar
<1>7. LateSoFar'
  BY <1>2, <1>6 DEF LateSoFar
<1>8. CASE d.fault # NoFault
  <2>1. Fail(d.fault) /\ Plain(d.fault)
    BY <1>1, <1>4, <1>8, PlainFaults DEF DecodingShape
  <2>2. PipelineShape'
    BY <1>2, <1>4, <2>1 DEF PipelineInv, PipelineShape, Fail, Phases
  <2>. QED BY <1>5, <1>7, <2>1, <2>2, PlainFails DEF PipelineInv
<1>9. CASE d.fault = NoFault
  <2>1. Go("build")
    BY <1>1, <1>9
  <2>2. Answered' /\ FaultsFounded' /\ fault' = NoFault /\ phase' = "build"
    BY <1>2, <2>1, GoStep
  <2>3. PipelineShape'
    BY <1>2, <1>4, <2>2 DEF PipelineInv, PipelineShape, Phases
  <2>4. Heard'
    BY <1>2, <1>4, <1>9 DEF Heard, Field
  <2>5. BuiltOnce' /\ Judged' /\ Branded'
    BY <1>2, <1>5, <2>2 DEF PipelineInv, BuiltOnce, Judged, Branded, Served, Styled
  <2>. QED BY <1>5, <1>7, <2>2, <2>3, <2>4, <2>5 DEF PipelineInv
<1>. QED BY <1>8, <1>9

\* A stage overruns a deadline by one more.
LEMMA StageLate ==
  ASSUME PipelineInv, Stage, UNCHANGED expired, phase # "done"
  PROVE  /\ late \in Nat /\ late' \in Nat /\ late' <= late + 1 /\ late <= 1
         /\ expired' \in BOOLEAN /\ (~expired => late = 0 /\ late' = 0)
BY DEF PipelineInv, LateSoFar, Stage

LEMMA TimeoutPlain == TimeoutFault # NoFault /\ Plain(TimeoutFault)
BY PlainFaults DEF Plain

LEMMA BuildKeeps == ASSUME PipelineInv, Build PROVE PipelineInv'
<1>1. /\ phase = "build" /\ Stage /\ UNCHANGED <<cfg, msg, req, expired, grade>>
      /\ UNCHANGED fetchVars
  BY DEF Build
<1>2. FetchHolds' /\ UNCHANGED <<stage, outcome, ref>> /\ stage = "idle"
  BY <1>1, FetchAsItWas DEF PipelineInv, Branded
<1>3. late = 0 /\ late' \in 0 .. 1 /\ expired' \in BOOLEAN /\ (~expired' => late' = 0)
  BY <1>1, StageLate DEF PipelineInv, LateSoFar
<1>4. fault = NoFault /\ response = NoResponse /\ Heard'
  BY <1>1, OpenStill, HeardKept DEF PipelineInv
<1>5. \/ BuildFault # NoFault /\ Fail(BuildFault)
      \/ BuildFault = NoFault /\ encoded' = Built /\ msg.endpoint # "build" /\ expired /\ Fail(TimeoutFault)
      \/ BuildFault = NoFault /\ encoded' = Built /\ msg.endpoint # "build" /\ ~expired /\ Go("encode")
      \/ /\ BuildFault = NoFault /\ encoded' = Built /\ msg.endpoint = "build"
         /\ phase' = "done" /\ UNCHANGED fault /\ response' = [kind |-> "json", status |-> 200]
  BY DEF Build, GoUnlessExpired
<1>6. CASE BuildFault # NoFault /\ Fail(BuildFault)
  <2>1. Answered' /\ Heard' /\ BuiltOnce' /\ FaultsFounded' /\ Judged' /\ Branded'
    <3> DEFINE f == BuildFault
    <3>1. /\ f.code # "UNSUPPORTED_OPTION" /\ f.code # "UNSCANNABLE"
          /\ f.status = 500 => /\ Field("type")' = Text("raw") /\ req'.payload.given
                               /\ ~Given("payload.data")'
      BY <1>1, <1>6, BuildFaultFounded, SameRequest
    <3> HIDE DEF f
    <3>2. Fail(f) /\ f # NoFault
      BY <1>6 DEF f
    <3>. QED BY <3>1, <3>2, FailStep
  <2>2. phase' = "done"
    BY <1>6 DEF Fail
  <2>3. PipelineShape' /\ LateSoFar'
    BY <1>1, <1>3, <2>2 DEF PipelineInv, PipelineShape, Phases, LateSoFar
  <2>. QED BY <1>2, <2>1, <2>3 DEF PipelineInv
<1>7. CASE Fail(TimeoutFault)
  <2>1. Answered' /\ Heard' /\ BuiltOnce' /\ FaultsFounded' /\ Judged' /\ Branded'
    BY <1>7, TimeoutPlain, PlainFails
  <2>2. phase' = "done"
    BY <1>7 DEF Fail
  <2>3. PipelineShape' /\ LateSoFar'
    BY <1>1, <1>3, <2>2 DEF PipelineInv, PipelineShape, Phases, LateSoFar
  <2>. QED BY <1>2, <2>1, <2>3 DEF PipelineInv
<1>8. CASE BuildFault = NoFault /\ encoded' = Built /\ ~expired /\ Go("encode")
  <2>1. Answered' /\ FaultsFounded' /\ phase' = "encode" /\ fault' = NoFault
    BY <1>1, <1>8, GoStep
  <2>2. late' = 0
    BY <1>1, <1>8, StageLate
  <2>3. PipelineShape' /\ LateSoFar'
    BY <1>1, <1>3, <2>1, <2>2 DEF PipelineInv, PipelineShape, Phases, LateSoFar
  <2>4. BuiltOnce'
    BY <1>1, <1>8, SameRequest DEF BuiltOnce
  <2>5. Judged' /\ Branded'
    BY <1>2, <2>1 DEF Judged, Branded, Served, Styled
  <2>. QED BY <1>2, <1>4, <2>1, <2>3, <2>4, <2>5 DEF PipelineInv
<1>9. CASE /\ BuildFault = NoFault /\ encoded' = Built /\ msg.endpoint = "build"
           /\ phase' = "done" /\ UNCHANGED fault /\ response' = [kind |-> "json", status |-> 200]
  <2>1. fault' = NoFault /\ response' # NoResponse /\ response'.kind # "fault"
    BY <1>4, <1>9, NoFaultIs
  <2>2. Answered'
    BY <1>9, <2>1 DEF Answered
  <2>3. FaultsFounded'
    BY <2>1, NoFaultIs DEF FaultsFounded, DefaultLevelNeverRefuses, InternalOnlyForRaw
  <2>4. BuiltOnce'
    BY <1>1, <1>9, SameRequest DEF BuiltOnce
  <2>5. Judged' /\ Branded'
    BY <1>1, <1>9 DEF Judged, Branded, Served, Styled
  <2>6. PipelineShape' /\ LateSoFar'
    BY <1>1, <1>3, <1>9 DEF PipelineInv, PipelineShape, Phases, LateSoFar
  <2>. QED BY <1>2, <1>4, <2>2, <2>3, <2>4, <2>5, <2>6 DEF PipelineInv
<1>. QED BY <1>5, <1>6, <1>7, <1>8, <1>9

\* What was built stays built while the request is looked at no further.
LEMMA BuiltKept ==
  ASSUME BuiltOnce, UNCHANGED <<req, encoded>>, phase \notin {"received", "build"}, fault = NoFault
  PROVE  BuiltOnce'
<1>1. BuildFault = NoFault /\ encoded = Built
  BY DEF BuiltOnce
<1>. QED BY <1>1, SameRequest DEF BuiltOnce

\* A step that fails a request past build: only its fault has to be founded.
LEMMA FailedStep ==
  ASSUME PipelineInv, phase # "done", NEW f, Fail(f), Plain(f), UNCHANGED <<req, msg, expired>>,
         late' \in 0 .. 2, ~expired => late' = 0, grade' \in Grades, FetchHolds'
  PROVE  PipelineInv'
<1>1. Answered' /\ Heard' /\ BuiltOnce' /\ FaultsFounded' /\ Judged' /\ Branded'
  BY PlainFails
<1>2. phase' = "done" /\ response'.kind = "fault"
  BY DEF Fail
<1>3. PipelineShape' /\ LateSoFar'
  BY <1>2 DEF PipelineInv, PipelineShape, Phases, LateSoFar
<1>. QED BY <1>1, <1>3 DEF PipelineInv

\* A step that goes on past build, but for what its next stage rests on.
LEMMA WentOn ==
  ASSUME PipelineInv, phase \notin {"received", "build", "done"}, NEW p \in Phases \ {"received", "done"},
         Go(p), UNCHANGED <<req, msg, encoded, expired>>, late' \in 0 .. 1, ~expired => late' = 0,
         p \in {"build", "encode", "style", "write"} => late' = 0,
         grade' \in Grades, FetchHolds', Judged', Branded'
  PROVE  PipelineInv'
<1>1. Answered' /\ FaultsFounded' /\ phase' = p /\ fault' = NoFault
  BY GoStep
<1>2. Heard' /\ BuiltOnce'
  BY OpenStill, HeardKept, BuiltKept DEF PipelineInv
<1>3. PipelineShape' /\ LateSoFar'
  BY <1>1 DEF PipelineInv, PipelineShape, LateSoFar
<1>. QED BY <1>1, <1>2, <1>3 DEF PipelineInv

LEMMA EncodeKeeps == ASSUME PipelineInv, Encode PROVE PipelineInv'
<1>1. /\ phase = "encode" /\ Stage /\ UNCHANGED <<cfg, msg, req, encoded, expired, grade>>
      /\ UNCHANGED fetchVars
  BY DEF Encode
<1>2. FetchHolds' /\ UNCHANGED <<stage, outcome, ref>> /\ stage = "idle"
  BY <1>1, FetchAsItWas DEF PipelineInv, Branded
<1>3. /\ late = 0 /\ late' \in 0 .. 1 /\ expired' \in BOOLEAN /\ (~expired => late' = 0)
      /\ grade' \in Grades
  BY <1>1, StageLate DEF PipelineInv, LateSoFar, PipelineShape
<1>4. \/ EncodeFault # NoFault /\ Fail(EncodeFault)
      \/ Fail(TimeoutFault)
      \/ ~expired /\ Go("style")
  BY DEF Encode, GoUnlessExpired
<1>5. CASE EncodeFault # NoFault /\ Fail(EncodeFault)
  <2>1. Answered' /\ Heard' /\ BuiltOnce' /\ FaultsFounded' /\ Judged' /\ Branded'
    <3> DEFINE f == EncodeFault
    <3>1. /\ f.code # "UNSCANNABLE" /\ f.status # 500
          /\ f.code = "UNSUPPORTED_OPTION" /\ f.field = "encode" =>
               \/ Field("encode.ecc")' # Text(Empty)
               \/ Field("encode.version")' \notin {Text("auto"), Text("0")}
      BY <1>1, <1>5, EncodeFaultFounded, SameRequest
    <3> HIDE DEF f
    <3>2. Fail(f) /\ f # NoFault
      BY <1>5 DEF f
    <3>. QED BY <3>1, <3>2, FailStep
  <2>2. phase' = "done"
    BY <1>5 DEF Fail
  <2>3. PipelineShape' /\ LateSoFar'
    BY <1>1, <1>3, <2>2 DEF PipelineInv, PipelineShape, Phases, LateSoFar
  <2>. QED BY <1>2, <2>1, <2>3 DEF PipelineInv
<1>6. CASE Fail(TimeoutFault)
  BY <1>1, <1>2, <1>3, <1>6, TimeoutPlain, FailedStep
<1>7. CASE ~expired /\ Go("style")
  <2>1. phase' = "style"
    BY <1>7 DEF Go
  <2>2. Judged' /\ Branded'
    BY <1>2, <2>1 DEF Judged, Branded, Served, Styled
  <2>. QED BY <1>1, <1>2, <1>3, <1>7, <2>2, WentOn DEF Phases
<1>. QED BY <1>4, <1>5, <1>6, <1>7

\* The reference is named once: no step of its fetch changes it.
LEMMA RefKept == ASSUME [FetchNext]_fetchVars PROVE ref' = ref
<1>1. CASE ResolveLogo \/ Guard \/ Rebind
  BY <1>1 DEF ResolveLogo, Guard, Rebind
<1>2. CASE PinLiteral \/ \E d \in Nat : PinName(d)
  BY <1>2 DEF PinLiteral, PinName
<1>3. CASE \E d \in Nat : Dial(d) \/ \E r \in Replies : Header(r, d)
  BY <1>3 DEF Dial, Header
<1>4. CASE \E d \in Nat : \E n \in Nat \ {0} : Read(n, d)
  BY <1>4 DEF Read
<1>5. CASE ReadFails \/ ReadEnds \/ Sniff \/ Abandon
  BY <1>5 DEF ReadFails, ReadEnds, Sniff, Abandon
<1>6. CASE UNCHANGED fetchVars
  BY <1>6 DEF fetchVars
<1> QED
  BY <1>1, <1>2, <1>3, <1>4, <1>5, <1>6 DEF FetchNext, FetchStep, FetchWork

\* An accepted request's logo is one the message named, and so one of Refs.
LEMMA LogoNamed ==
  ASSUME PipelineInv, phase \notin {"received", "done"}
  PROVE  LogoRefs[Field("style.logo").core] \in Refs
<1>1. msg \in Messages /\ \A f \in Fields : PathDecides(msg, f) \/ Field(f) = Said(msg, f)
  BY OpenStill DEF PipelineInv, PipelineShape, Heard
<1>2. "style.logo" \in Fields
  BY DEF Fields, TextFields
<1>3. Field("style.logo") = Said(msg, "style.logo")
  BY <1>1, <1>2 DEF PathDecides
<1>. QED BY <1>1, <1>3, LogosAssumption

LEMMA StyleKeeps == ASSUME PipelineInv, Style PROVE PipelineInv'
<1>1. /\ phase = "style" /\ Stage
      /\ UNCHANGED <<cfg, msg, req, encoded, expired, grade, stage, dns, pinned, dialled, reply,
                     got, elapsed, outcome>>
  BY DEF Style
<1>2. stage = "idle"
  BY <1>1 DEF PipelineInv, Branded
<1>3. late' \in 0 .. 1 /\ (~expired => late' = 0) /\ grade' \in Grades
  BY <1>1, StageLate DEF PipelineInv, LateSoFar, PipelineShape
<1>4. \/ ColourFault # NoFault /\ Fail(ColourFault) /\ UNCHANGED ref
      \/ Field("style.logo") = Text(Empty) /\ Go("frame") /\ UNCHANGED ref
      \/ /\ Field("style.logo") # Text(Empty) /\ Go("logo")
         /\ ref' = LogoRefs[Field("style.logo").core]
  BY DEF Style
<1>5. UNCHANGED ref => FetchHolds'
  <2>1. UNCHANGED ref => UNCHANGED fetchVars
    BY <1>1 DEF fetchVars
  <2>. QED BY <2>1, FetchAsItWas
<1>6. CASE ColourFault # NoFault /\ Fail(ColourFault) /\ UNCHANGED ref
  BY <1>1, <1>3, <1>5, <1>6, PlainFaults, FailedStep
<1>7. CASE Field("style.logo") = Text(Empty) /\ Go("frame") /\ UNCHANGED ref
  <2>1. phase' = "frame"
    BY <1>7 DEF Go
  <2>2. Field("style.logo")' = Text(Empty)
    BY <1>1, <1>7, SameRequest
  <2>3. Judged' /\ Branded'
    BY <2>1, <2>2 DEF Judged, Branded, Served, Styled
  <2>. QED BY <1>1, <1>3, <1>5, <1>7, <2>3, WentOn DEF Phases
<1>8. CASE /\ Field("style.logo") # Text(Empty) /\ Go("logo")
           /\ ref' = LogoRefs[Field("style.logo").core]
  <2>1. phase' = "logo"
    BY <1>8 DEF Go
  <2>2. /\ Field("style.logo")' # Text(Empty)
        /\ ref' = LogoRefs[Field("style.logo")'.core]
    BY <1>1, <1>8, SameRequest
  <2>3. Judged' /\ Branded'
    BY <2>1, <2>2 DEF Judged, Branded, Served, Styled
  <2>4. FetchHolds'
    <3>1. NamesLogo
      BY <1>1, <1>2, <1>8, LogoNamed DEF NamesLogo
    <3>. QED BY <3>1, FetchHoldsStep DEF PipelineInv
  <2>. QED BY <1>1, <1>3, <1>8, <2>3, <2>4, WentOn DEF Phases
<1>. QED BY <1>4, <1>6, <1>7, <1>8

\* A step beside the request's own: of the logo's fetch, of the resolver, of
\* the deadline.
LEMMA BesideKeeps ==
  ASSUME PipelineInv, UNCHANGED <<phase, cfg, msg, req, encoded, late, grade, fault, response>>,
         \/ UNCHANGED expired
         \/ phase # "done" /\ ~expired /\ expired' = TRUE,
         \/ UNCHANGED fetchVars
         \/ phase = "logo" /\ FetchNext
  PROVE  PipelineInv'
<1>1. [FetchNext]_fetchVars /\ FetchHolds' /\ ref' = ref
  BY FetchHoldsStep, RefKept DEF PipelineInv
<1>2. (phase # "logo") => (stage' = stage /\ outcome' = outcome)
  BY DEF fetchVars
<1>3. LateSoFar'
  BY DEF PipelineInv, LateSoFar
<1>4. Answered' /\ Judged' /\ PipelineShape'
  BY DEF PipelineInv, Answered, Judged, PipelineShape, Served, Unscannable
<1>5. FaultsFounded'
  BY SameRequest DEF PipelineInv, FaultsFounded, DefaultLevelNeverRefuses, InternalOnlyForRaw
<1>6. Heard' /\ BuiltOnce'
  <2>1. CASE phase = "received" \/ fault # NoFault
    BY <2>1 DEF Heard, BuiltOnce
  <2>2. CASE phase # "received" /\ fault = NoFault
    <3>1. Heard'
      BY <2>2, HeardKept DEF PipelineInv
    <3>2. CASE phase = "build"
      BY <3>1, <3>2 DEF BuiltOnce
    <3>. QED BY <2>2, <3>1, <3>2, BuiltKept DEF PipelineInv
  <2>. QED BY <2>1, <2>2
<1>7. Branded'
  <2>1. Field("style.logo")' = Field("style.logo")
    BY SameRequest
  <2>2. Branded
    BY DEF PipelineInv
  <2>3. Served' = Served /\ (Styled' = Styled) /\ (Styled => phase # "logo")
    BY DEF Styled, Served
  <2>. QED BY <1>1, <1>2, <2>1, <2>2, <2>3 DEF Branded
<1>. QED BY <1>1, <1>3, <1>4, <1>5, <1>6, <1>7 DEF PipelineInv

LEMMA FetchLogoKeeps == ASSUME PipelineInv, FetchLogo PROVE PipelineInv'
<1>1. phase = "logo" /\ FetchNext
  BY StagesAssumption DEF FetchLogo, FetchNext, FetchStep, FetchWork
<1>2. UNCHANGED <<phase, cfg, msg, req, encoded, late, grade, fault, response, expired>>
  BY DEF FetchLogo, pipelineVars
<1>. QED BY <1>1, <1>2, BesideKeeps

LEMMA AsideKeeps ==
  ASSUME PipelineInv, Expire \/ RebindName \/ UNCHANGED vars PROVE PipelineInv'
<1>1. CASE Expire
  BY <1>1, BesideKeeps DEF Expire
<1>2. CASE RebindName
  BY <1>2, BesideKeeps DEF RebindName, pipelineVars, FetchNext
<1>3. CASE UNCHANGED vars
  BY <1>3, BesideKeeps DEF vars, pipelineVars
<1>. QED BY <1>1, <1>2, <1>3

LEMMA LogoKeeps == ASSUME PipelineInv, Logo PROVE PipelineInv'
<1>1. /\ phase = "logo" /\ UNCHANGED <<cfg, msg, req, encoded, expired, late, grade>>
      /\ UNCHANGED fetchVars
  BY DEF Logo
<1>2. FetchHolds' /\ UNCHANGED <<stage, outcome, ref>>
  BY <1>1, FetchAsItWas
<1>3. late' \in 0 .. 1 /\ (~expired => late' = 0) /\ grade' \in Grades
  BY <1>1 DEF PipelineInv, LateSoFar, PipelineShape
<1>4. \/ Fail(Fault(LogoFault(outcome)[1], LogoFault(outcome)[2], "style.logo"))
      \/ Fail(Fault(400, "INVALID_VALUE", "style.logo"))
      \/ /\ outcome \in {"ok", "inline"} /\ Field("style.logo").core \notin BadImages
         /\ Go("frame")
  BY DEF Logo
<1>5. CASE Fail(Fault(LogoFault(outcome)[1], LogoFault(outcome)[2], "style.logo"))
  BY <1>1, <1>2, <1>3, <1>5, PlainFaults, FailedStep
<1>6. CASE Fail(Fault(400, "INVALID_VALUE", "style.logo"))
  BY <1>1, <1>2, <1>3, <1>6, PlainFaults, FailedStep
<1>7. CASE /\ outcome \in {"ok", "inline"} /\ Field("style.logo").core \notin BadImages
           /\ Go("frame")
  <2>1. phase' = "frame"
    BY <1>7 DEF Go
  <2>2. /\ Field("style.logo")' = Field("style.logo")
        /\ ref = LogoRefs[Field("style.logo").core]
    BY <1>1, SameRequest DEF PipelineInv, Branded
  <2>3. Judged' /\ Branded'
    BY <1>2, <1>7, <2>1, <2>2 DEF Judged, Branded, Served, Styled
  <2>. QED BY <1>1, <1>2, <1>3, <1>7, <2>3, WentOn DEF Phases
<1>. QED BY <1>4, <1>5, <1>6, <1>7

\* The logo of a styled request stays its logo.
LEMMA BrandedKept ==
  ASSUME Branded, Styled, UNCHANGED <<req, outcome, ref>>,
         phase' \in {"render", "write", "serve", "done"}
  PROVE  Branded'
<1>1. Field("style.logo")' = Field("style.logo")
  BY SameRequest
<1>. QED BY <1>1 DEF Branded, Styled, Served

LEMMA FrameKeeps == ASSUME PipelineInv, Frame PROVE PipelineInv'
<1>1. /\ phase = "frame" /\ UNCHANGED <<cfg, msg, req, encoded, expired, late, grade>>
      /\ UNCHANGED fetchVars
      /\ \/ FrameFault # NoFault /\ Fail(FrameFault)
         \/ Go("render")
  BY DEF Frame
<1>2. FetchHolds' /\ UNCHANGED <<stage, outcome, ref>>
  BY <1>1, FetchAsItWas
<1>3. late' \in 0 .. 1 /\ (~expired => late' = 0) /\ grade' \in Grades
  BY <1>1 DEF PipelineInv, LateSoFar, PipelineShape
<1>4. CASE FrameFault # NoFault /\ Fail(FrameFault)
  BY <1>1, <1>2, <1>3, <1>4, PlainFaults, FailedStep
<1>5. CASE Go("render")
  <2>1. phase' = "render"
    BY <1>5 DEF Go
  <2>2. Judged' /\ Branded'
    BY <1>1, <1>2, <2>1, BrandedKept DEF PipelineInv, Judged, Served, Styled
  <2>. QED BY <1>1, <1>2, <1>3, <1>5, <2>2, WentOn DEF Phases
<1>. QED BY <1>1, <1>4, <1>5

LEMMA RenderKeeps == ASSUME PipelineInv, Render PROVE PipelineInv'
<1>1. /\ phase = "render" /\ Stage /\ UNCHANGED <<cfg, msg, req, encoded, expired>>
      /\ UNCHANGED fetchVars /\ grade' \in Grades
      /\ \/ Fail(TimeoutFault) \/ Fail(ShapeFault)
         \/ ~expired /\ Go("write")
  BY DEF Render, GoUnlessExpired, PipelineInv, PipelineShape
<1>2. FetchHolds' /\ UNCHANGED <<stage, outcome, ref>>
  BY <1>1, FetchAsItWas
<1>3. late' \in 0 .. 2 /\ (~expired => late' = 0)
  BY <1>1, StageLate DEF PipelineInv, LateSoFar
<1>4. CASE Fail(TimeoutFault) \/ Fail(ShapeFault)
  BY <1>1, <1>2, <1>3, <1>4, PlainFaults, FailedStep
<1>5. CASE ~expired /\ Go("write")
  <2>1. phase' = "write" /\ late' = 0
    BY <1>3, <1>5 DEF Go
  <2>2. Judged' /\ Branded'
    BY <1>1, <1>2, <2>1, BrandedKept DEF PipelineInv, Judged, Served, Styled
  <2>. QED BY <1>1, <1>2, <1>3, <1>5, <2>1, <2>2, WentOn DEF Phases
<1>. QED BY <1>1, <1>4, <1>5

LEMMA WriteKeeps == ASSUME PipelineInv, Write PROVE PipelineInv'
<1>1. /\ phase = "write" /\ Stage /\ UNCHANGED <<cfg, msg, req, encoded, expired, grade>>
      /\ UNCHANGED fetchVars
      /\ \/ Unscannable /\ Fail(Fault(422, "UNSCANNABLE", "style"))
         \/ WriteFault # NoFault /\ Fail(WriteFault)
         \/ ~Unscannable /\ Go("serve")
  BY DEF Write
<1>2. FetchHolds' /\ UNCHANGED <<stage, outcome, ref>>
  BY <1>1, FetchAsItWas
<1>3. /\ late' \in 0 .. 1 /\ (~expired => late' = 0) /\ grade' \in Grades /\ expired' \in BOOLEAN
  BY <1>1, StageLate DEF PipelineInv, LateSoFar, PipelineShape
<1>4. CASE Unscannable /\ Fail(Fault(422, "UNSCANNABLE", "style"))
  <2>1. cfg'.strict = "strict" /\ grade' = "unscannable"
    BY <1>1, <1>4 DEF Unscannable
  <2> DEFINE f == Fault(422, "UNSCANNABLE", "style")
  <2>2. f # NoFault /\ f.code = "UNSCANNABLE" /\ f.status = 422
    BY FaultShape
  <2>3. Fail(f)
    BY <1>4
  <2> HIDE DEF f
  <2>4. Answered' /\ Heard' /\ BuiltOnce' /\ FaultsFounded' /\ Judged' /\ Branded'
    BY <2>1, <2>2, <2>3, FailStep
  <2>5. phase' = "done"
    BY <2>3 DEF Fail
  <2>6. PipelineShape' /\ LateSoFar'
    BY <1>1, <1>3, <2>5 DEF PipelineInv, PipelineShape, Phases, LateSoFar
  <2>. QED BY <1>2, <2>4, <2>6 DEF PipelineInv
<1>5. CASE WriteFault # NoFault /\ Fail(WriteFault)
  BY <1>1, <1>2, <1>3, <1>5, PlainFaults, FailedStep
<1>6. CASE ~Unscannable /\ Go("serve")
  <2>1. phase' = "serve"
    BY <1>6 DEF Go
  <2>2. Judged' /\ Branded'
    BY <1>1, <1>2, <1>6, <2>1, BrandedKept DEF PipelineInv, Judged, Served, Styled, Unscannable
  <2>. QED BY <1>1, <1>2, <1>3, <1>6, <2>2, WentOn DEF Phases
<1>. QED BY <1>1, <1>4, <1>5, <1>6

LEMMA ServeKeeps == ASSUME PipelineInv, Serve PROVE PipelineInv'
<1>1. /\ phase = "serve" /\ phase' = "done" /\ UNCHANGED fault
      /\ UNCHANGED <<cfg, msg, req, encoded, expired, late, grade>> /\ UNCHANGED fetchVars
      /\ response'.kind \in {"item", "json", "none", "image"} /\ response'.status \in {200, 304}
  BY DEF Serve
<1>2. FetchHolds' /\ UNCHANGED <<stage, outcome, ref>>
  BY <1>1, FetchAsItWas
<1>3. fault' = NoFault /\ fault = NoFault /\ response' # NoResponse /\ response'.kind # "fault"
  BY <1>1, OpenStill, NoFaultIs
<1>4. Answered'
  BY <1>1, <1>3 DEF Answered
<1>5. Heard' /\ BuiltOnce'
  BY <1>1, <1>3, HeardKept, BuiltKept DEF PipelineInv
<1>6. FaultsFounded'
  BY <1>3, NoFaultIs DEF FaultsFounded, DefaultLevelNeverRefuses, InternalOnlyForRaw
<1>7. Judged' /\ Branded'
  <2>1. Branded'
    BY <1>1, <1>2, BrandedKept DEF PipelineInv, Served, Styled
  <2>2. Judged'
    BY <1>1 DEF PipelineInv, Judged, Served, Unscannable
  <2>. QED BY <2>1, <2>2
<1>8. PipelineShape' /\ LateSoFar'
  BY <1>1 DEF PipelineInv, PipelineShape, Phases, LateSoFar
<1>. QED BY <1>2, <1>4, <1>5, <1>6, <1>7, <1>8 DEF PipelineInv

LEMMA PipelineInvStep == PipelineInv /\ [Next]_vars => PipelineInv'
<1>. QED
  BY AcceptKeeps, BuildKeeps, EncodeKeeps, StyleKeeps, FetchLogoKeeps, LogoKeeps, FrameKeeps,
     RenderKeeps, WriteKeeps, ServeKeeps, AsideKeeps DEF Next, Step

-----------------------------------------------------------------------------
(* What the invariant gives.                                               *)

\* A call that is answered was accepted, and its answer is no fault.
LEMMA RenderedIs ==
  ASSUME PipelineInv, Rendered PROVE phase = "done" /\ fault = NoFault
<1>1. NoResponse.kind = "none" /\ response.kind \in {"image", "item", "json"}
  BY DEF NoResponse, Rendered
<1>. QED BY <1>1 DEF PipelineInv, Answered

LEMMA IntentIsOne == ASSUME PipelineInv PROVE EncodesOneIntent
<1> SUFFICES ASSUME Rendered
    PROVE  /\ ~(HasType /\ Field("data") # Text(Empty))
           /\ msg.endpoint = "item" /\ msg.item.data # Text(Empty)
                => encoded = [type |-> Empty, text |-> msg.item.data]
  BY DEF EncodesOneIntent
<1>1. /\ phase = "done" /\ fault = NoFault /\ msg \in Messages
      /\ BuildFault = NoFault /\ encoded = Built
      /\ \A f \in Fields : PathDecides(msg, f) \/ Field(f) = Said(msg, f)
  BY RenderedIs DEF PipelineInv, PipelineShape, BuiltOnce, Heard
<1>2. ~(HasType /\ Field("data") # Text(Empty))
  <2>1. NoFault.status = 0 /\ Fault(400, "BAD_REQUEST", "data").status = 400
    BY FaultShape
  <2>2. Fault(400, "BAD_REQUEST", "data") # NoFault
    BY <2>1
  <2>3. HasType /\ Field("data") # Text(Empty) => BuildFault = Fault(400, "BAD_REQUEST", "data")
    BY DEF BuildFault
  <2>. QED BY <1>1, <2>2, <2>3
<1>3. ASSUME msg.endpoint = "item", msg.item.data # Text(Empty)
      PROVE  encoded = [type |-> Empty, text |-> msg.item.data]
  <2>1. Said(msg, "data") = msg.item.data
    <3>1. "data" \in DOMAIN ItemSays(msg.item) /\ ItemSays(msg.item)["data"] = msg.item["data"]
      BY <1>3 DEF ItemSays
    <3>. QED BY <1>1, <1>3, <3>1, SaidByItem
  <2>2. Field("data") = msg.item.data
    BY <1>1, <1>3, <2>1, KeySets DEF PathDecides
  <2>3. ~HasType
    BY <1>2, <1>3, <2>2
  <2>4. Built = [type |-> Empty, text |-> msg.item.data]
    BY <1>3, <2>2, <2>3 DEF Built
  <2>. QED BY <1>1, <2>4
<1>. QED BY <1>2, <1>3

LEMMA HonouredByInv == ASSUME PipelineInv PROVE RequestHonoured
<1>1. SpecificWins /\ NothingDropped
  BY DEF PipelineInv, Heard, SpecificWins, NothingDropped, Accepted, Harmless
<1>2. DefaultLevelNeverRefuses /\ InternalOnlyForRaw
  BY DEF PipelineInv, FaultsFounded
<1>. QED BY <1>1, <1>2, IntentIsOne DEF RequestHonoured

LEMMA BoundedByInv == ASSUME PipelineInv PROVE BoundedOverrun
<1>1. late \in 0 .. 2 /\ (response.kind # "fault" => late <= 1)
  BY DEF PipelineInv, LateSoFar
<1>2. Rendered => response.kind # "fault"
  BY DEF Rendered
<1>. QED BY <1>1, <1>2 DEF BoundedOverrun

LEMMA AsAskedByInv == ASSUME PipelineInv PROVE ServedAsAsked
<1>1. Rendered /\ msg.endpoint # "build" => Served
  BY RenderedIs DEF Served
<1>2. StrictRefuses
  BY <1>1 DEF PipelineInv, Judged, FaultsFounded, Unscannable, StrictRefuses
<1>3. NoImageWithoutItsLogo
  BY <1>1 DEF PipelineInv, Branded, Styled, FetchHolds, LogoKinds, NoImageWithoutItsLogo
<1>. QED BY <1>2, <1>3 DEF ServedAsAsked

LEMMA SoundByInv == ASSUME PipelineInv PROVE FetchSound /\ FetchTypeOK
<1>1. DialsVetted /\ OneConnection /\ WholeImage /\ FetchTypeOK /\ TimeLeft
  BY DEF PipelineInv, FetchHolds, FetchInv
<1>2. OneBudget
  BY <1>1 DEF TimeLeft, OneBudget
<1>. QED BY <1>1, <1>2 DEF FetchSound

LEMMA PipelineTyped == ASSUME PipelineInv PROVE PipelineTypeOK
<1>1. /\ phase \in Phases /\ grade \in Grades /\ expired \in BOOLEAN /\ late \in 0 .. 2
      /\ req.field = [f \in Fields |-> req.field[f]]
      /\ DOMAIN req.payload.member \subseteq PayloadKeys
      /\ (fault # NoFault) <=> (response.kind = "fault")
      /\ (phase = "done") <=> (response # NoResponse)
  BY DEF PipelineInv, PipelineShape, LateSoFar, ReqShape, Answered
<1>2. DOMAIN req.field = Fields
  BY <1>1
<1>. QED BY <1>1, <1>2 DEF PipelineTypeOK

\* In every call the pipeline's state is the pipeline's own.
LEMMA PipelineInCall == CallInit => Init
BY DEF CallInit

LEMMA PipelineInStep == [CallNext]_callVars => [Next]_vars
BY DEF CallNext, callVars, RenderCall, DecodeCall, Elsewhere, Next

THEOREM PipelineInvariant == CallSpec => []PipelineInv
<1>1. CallInit => PipelineInv
  BY PipelineInCall, PipelineBegins
<1>2. PipelineInv /\ [CallNext]_callVars => PipelineInv'
  BY PipelineInStep, PipelineInvStep
<1>. QED BY <1>1, <1>2, PTL DEF CallSpec

(* An accepted request says what its caller said, on every transport: the     *)
(* more specific statement wins on every field, no key is dropped, one intent *)
(* is encoded, no default refuses it, and the only error that is not the      *)
(* caller's is the raw builder's (decodeOver, build, encodeOpts, asFault).    *)
THEOREM RequestIsHonoured == CallSpec => []RequestHonoured
BY PipelineInvariant, HonouredByInv, PTL

(* A deadline that has passed costs two more stages at most, and one at most  *)
(* where something is still answered (pipeline).                              *)
THEOREM OverrunIsBounded == CallSpec => []BoundedOverrun
BY PipelineInvariant, BoundedByInv, PTL

(* What is served is what was asked for: readable where the server is strict, *)
(* and with the logo it names, vetted, whole and in time (unscannableFault,   *)
(* style, resolveLogo).                                                       *)
THEOREM ServedIsAsAsked == CallSpec => []ServedAsAsked
BY PipelineInvariant, AsAskedByInv, PTL

(* A request's fetch keeps its guard: one vetted address, one connection, a   *)
(* whole image, one budget, whatever else the request does (style, Fetch).    *)
THEOREM LogosFetchedSoundly == CallSpec => []FetchSound
BY PipelineInvariant, SoundByInv, PTL

(* The pipeline's, the fetch's and the decoder's variables keep their types.  *)
THEOREM CallTypes == CallSpec => []TypesOK
<1>1. CallInit => SearchInv
  BY DecoderInCall, SearchInit
<1>2. SearchInv /\ [CallNext]_callVars => SearchInv'
  BY DecoderInStep, SearchStep
<1>3. SearchInv /\ PipelineInv => TypesOK
  BY SearchIsBounded, SoundByInv, PipelineTyped DEF TypesOK
<1>. QED BY <1>1, <1>2, <1>3, PipelineInvariant, PTL DEF CallSpec
=============================================================================
