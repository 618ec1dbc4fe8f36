------------------------------- MODULE Fetch -------------------------------
(***************************************************************************)
(* One remote logo, from style.logo to a data: URI or a refusal            *)
(* (internal/fetch/fetch.go, internal/httpapi/logo.go).                    *)
(*                                                                         *)
(* The environment owns what the code cannot control: the resolver, whose  *)
(* answer for the name may change between any two steps, the host that is  *)
(* dialled, the time each wait takes, and the request's own context.       *)
(*                                                                         *)
(* A host is [name, spelling]: the name a sequence of pieces, since hosts  *)
(* are compared whole and never by a suffix, the spelling its case, blanks *)
(* and root label, which normaliseHost removes.  An address is             *)
(* [net, mapped]: the range it is in, and whether it is written as an      *)
(* IPv4-mapped IPv6 address, a form the range classifiers miss.            *)
(***************************************************************************)
EXTENDS Naturals, Sequences

CONSTANTS Names,            \* host names and address literals, normalised
          Literals,         \* the address each literal among Names denotes
          Allowlist,        \* the operator's entries: a set of hosts
          AllowRemote,      \* BARQR_ALLOW_REMOTE_FETCH
          Timeout,          \* BARQR_FETCH_TIMEOUT, in ticks
          MaxBytes,         \* BARQR_FETCH_MAX_BYTES, in units
          Answers,          \* the answers the resolver may give
          Replies,          \* what the dialled host may answer
          Refs              \* the values of style.logo

Spellings == {"plain", "shouted", "rooted"}
NoName    == << >>
Hosts     == [name : Names \cup {NoName}, spelling : Spellings]

Ranges == {"public", "unspecified", "loopback", "private", "link_local",
           "multicast", "nat", "protocol", "benchmark", "reserved",
           "nat64", "sixtofour"}
Addrs  == [net : Ranges, mapped : BOOLEAN]
NoAddr == [net |-> "invalid", mapped |-> FALSE]

ASSUME FetchAssumption ==
  /\ Timeout \in Nat /\ MaxBytes \in Nat
  /\ AllowRemote \in BOOLEAN
  /\ Allowlist \subseteq Hosts
  /\ DOMAIN Literals \subseteq Names
  /\ \A n \in DOMAIN Literals : Literals[n] \in Addrs
  /\ Answers \subseteq Seq(Addrs)
  /\ Replies \subseteq [status : Nat, declared : Nat, size : Nat, image : BOOLEAN]
  /\ \A r \in Refs : r.host \in Hosts

VARIABLES stage,            \* where Fetch stands
          ref,              \* the reference being resolved
          dns,              \* what the resolver would answer now
          pinned,           \* the address pin returned
          dialled,          \* every address dialled, in order
          reply,            \* the response being read
          got,              \* bytes of its body read so far
          elapsed,          \* time drawn from the one deadline
          outcome           \* Pending, "ok", or the sentinel returned

fetchVars == <<stage, ref, dns, pinned, dialled, reply, got, elapsed, outcome>>

Stages   == {"idle", "guard", "pin", "dial", "header", "body", "sniff", "done"}
Pending  == ""
Outcomes == {Pending, "none", "inline", "ok", "off", "unlisted", "NotAllowed",
             "PrivateAddress", "Unresolved", "TooLarge", "BadStatus",
             "BadScheme", "Timeout", "NotImage"}
NoReply  == [status |-> 0, declared |-> 0, size |-> 0, image |-> FALSE]

Least(a, b) == IF a < b THEN a ELSE b

-----------------------------------------------------------------------------
(* The guards.                                                             *)

\* normaliseHost: lower case, no blanks, no root label.
NormaliseHost(h) == h.name

\* The whole host, never a suffix of it.
Allows(h) ==
  /\ NormaliseHost(h) # NoName
  /\ \E e \in Allowlist : NormaliseHost(e) = NormaliseHost(h)

\* fetch.Enabled: a budget, and one entry that names something.
Enabled ==
  /\ Timeout > 0 /\ MaxBytes > 0
  /\ \E e \in Allowlist : NormaliseHost(e) # NoName

BugUnmap(a) == a
Unmap(a) == [a EXCEPT !.mapped = FALSE]

\* netip's classifiers and the blocked prefixes see the form they are given.
Classified(a) ==
  ~a.mapped /\ a.net \in {"unspecified", "loopback", "private", "link_local", "multicast"}
BlockedPrefix(a) ==
  ~a.mapped /\ a.net \in {"nat", "protocol", "benchmark", "reserved", "nat64", "sixtofour"}

CheckAddr(a) == ~Classified(Unmap(a)) /\ ~BlockedPrefix(Unmap(a))

-----------------------------------------------------------------------------
FetchInit ==
  /\ stage = "idle" /\ ref \in Refs /\ dns \in Answers
  /\ pinned = NoAddr /\ dialled = <<>> /\ reply = NoReply /\ got = 0
  /\ elapsed = 0 /\ outcome = Pending

Give(o) == stage' = "done" /\ outcome' = o

Spend(d) == elapsed' = Least(elapsed + d, Timeout)
InTime(d) == elapsed + d < Timeout

\* resolveLogo, up to the call of Fetch.
ResolveLogo ==
  /\ stage = "idle"
  /\ \/ ref.kind = "empty" /\ Give("none")
     \/ ref.kind = "data" /\ Give("inline")
     \/ ref.kind = "remote" /\ ~AllowRemote /\ Give("off")
     \/ ref.kind = "remote" /\ AllowRemote /\ ~Enabled /\ Give("unlisted")
     \/ /\ ref.kind = "remote" /\ AllowRemote /\ Enabled
        /\ stage' = "guard" /\ UNCHANGED outcome
  /\ UNCHANGED <<ref, dns, pinned, dialled, reply, got, elapsed>>

\* Scheme, then allowlist; the deadline starts when both pass.
Guard ==
  /\ stage = "guard"
  /\ \/ ref.scheme # "https" /\ Give("BadScheme")
     \/ ref.scheme = "https" /\ ~Allows(ref.host) /\ Give("NotAllowed")
     \/ /\ ref.scheme = "https" /\ Allows(ref.host)
        /\ stage' = "pin" /\ UNCHANGED outcome
  /\ UNCHANGED <<ref, dns, pinned, dialled, reply, got, elapsed>>

\* The resolver's answer for a name may change whenever it likes.
Rebind ==
  /\ stage \in {"pin", "dial"}
  /\ dns' \in Answers
  /\ UNCHANGED <<stage, ref, pinned, dialled, reply, got, elapsed, outcome>>

Vet(addrs) ==
  \/ \E i \in DOMAIN addrs : ~CheckAddr(addrs[i])
     /\ Give("PrivateAddress") /\ UNCHANGED pinned
  \/ /\ \A i \in DOMAIN addrs : CheckAddr(addrs[i])
     /\ pinned' = Unmap(addrs[1]) /\ stage' = "dial" /\ UNCHANGED outcome

\* pin: a literal is checked, a name is resolved once and every answer checked.
PinLiteral ==
  /\ stage = "pin" /\ NormaliseHost(ref.host) \in DOMAIN Literals
  /\ Vet(<<Literals[NormaliseHost(ref.host)]>>)
  /\ UNCHANGED <<ref, dns, dialled, reply, got, elapsed>>

PinName(d) ==
  /\ stage = "pin" /\ NormaliseHost(ref.host) \notin DOMAIN Literals
  /\ Spend(d)
  /\ \/ ~InTime(d) /\ Give("Timeout") /\ UNCHANGED pinned
     \/ InTime(d) /\ dns = <<>> /\ Give("Unresolved") /\ UNCHANGED pinned
     \/ InTime(d) /\ dns # <<>> /\ Vet(dns)
  /\ UNCHANGED <<ref, dns, dialled, reply, got>>

\* dialPinned ignores the name and connects to the vetted address.
Dial(d) ==
  /\ stage = "dial"
  /\ dialled' = Append(dialled, pinned)
  /\ Spend(d)
  /\ \/ ~InTime(d) /\ Give("Timeout")
     \/ InTime(d) /\ Give("BadStatus")                \* refused
     \/ InTime(d) /\ stage' = "header" /\ UNCHANGED outcome
  /\ UNCHANGED <<ref, dns, pinned, reply, got>>


BugHeaderWaits(r, d) ==
  /\ stage = "header" /\ InTime(d) /\ reply' = r /\ Spend(d)
  /\ IF r.status \in 200..299 THEN stage' = "body" /\ UNCHANGED outcome ELSE Give("BadStatus")
  /\ UNCHANGED <<ref, dns, pinned, dialled, got>>
\* CheckRedirect hands a 3xx back, and every status but 2xx is an error.
Header(r, d) ==
  /\ stage = "header"
  /\ reply' = r /\ Spend(d)
  /\ \/ ~InTime(d) /\ Give("Timeout")
     \/ InTime(d) /\ r.status \notin 200..299 /\ Give("BadStatus")
     \/ InTime(d) /\ r.status \in 200..299 /\ r.declared > MaxBytes /\ Give("TooLarge")
     \/ /\ InTime(d) /\ r.status \in 200..299 /\ r.declared <= MaxBytes
        /\ stage' = "body" /\ UNCHANGED outcome
  /\ UNCHANGED <<ref, dns, pinned, dialled, got>>

\* The reader's limit: one byte past the cap.
ReadLimit == MaxBytes + 1

\* The body arrives as slowly as its sender likes, up to the limit.
Read(n, d) ==
  /\ stage = "body" /\ got < Least(reply.size, ReadLimit)
  /\ got' = Least(got + n, Least(reply.size, ReadLimit))
  /\ Spend(d)
  /\ \/ ~InTime(d) /\ Give("Timeout")
     \/ InTime(d) /\ UNCHANGED <<stage, outcome>>
  /\ UNCHANGED <<ref, dns, pinned, dialled, reply>>

ReadFails ==
  /\ stage = "body" /\ got < Least(reply.size, ReadLimit)
  /\ Give("BadStatus")
  /\ UNCHANGED <<ref, dns, pinned, dialled, reply, got, elapsed>>

ReadEnds ==
  /\ stage = "body" /\ got = Least(reply.size, ReadLimit)
  /\ \/ got > MaxBytes /\ Give("TooLarge")
     \/ got <= MaxBytes /\ stage' = "sniff" /\ UNCHANGED outcome
  /\ UNCHANGED <<ref, dns, pinned, dialled, reply, got, elapsed>>

\* http.DetectContentType on the bytes, whatever the host declared.
Sniff ==
  /\ stage = "sniff"
  /\ IF reply.image THEN Give("ok") ELSE Give("NotImage")
  /\ UNCHANGED <<ref, dns, pinned, dialled, reply, got, elapsed>>

BugAbandon ==
  /\ stage \in {"pin", "dial", "header", "body"} /\ Give("Canceled")
  /\ UNCHANGED <<ref, dns, pinned, dialled, reply, got, elapsed>>
\* The request's context ends: a lookup its deadline ends is a timeout, one its
\* client abandons an unresolved name, and either end of an exchange a timeout.
Abandon ==
  /\ stage \in {"pin", "dial", "header", "body"}
  /\ stage = "pin" => NormaliseHost(ref.host) \notin DOMAIN Literals
  /\ Give("Timeout") \/ (stage = "pin" /\ Give("Unresolved"))
  /\ UNCHANGED <<ref, dns, pinned, dialled, reply, got, elapsed>>

FetchWork(waits, chunks) ==
  \/ ResolveLogo \/ Guard \/ PinLiteral \/ ReadFails \/ ReadEnds \/ Sniff
  \/ \E d \in waits : \/ PinName(d) \/ Dial(d)
                      \/ \E r \in Replies : Header(r, d)
                      \/ \E n \in chunks : Read(n, d)

FetchStep(waits, chunks) == FetchWork(waits, chunks) \/ Abandon

\* A wait may be any length and a chunk any size: Nat here, small sets for TLC.
FetchNext == FetchStep(Nat, Nat \ {0}) \/ Rebind
FetchSpec == FetchInit /\ [][FetchNext]_fetchVars

-----------------------------------------------------------------------------
\* logoFetchFault and the refusals of resolveLogo: what the caller is told.
LogoFault(o) ==
  CASE o = "off"                            -> <<501, "UNSUPPORTED_OPTION">>
    [] o \in {"unlisted", "NotAllowed"}     -> <<403, "FETCH_NOT_ALLOWED">>
    [] o = "PrivateAddress"                 -> <<403, "FETCH_BLOCKED">>
    [] o = "TooLarge"                       -> <<413, "BODY_TOO_LARGE">>
    [] o = "Timeout"                        -> <<504, "TIMEOUT">>
    [] OTHER                                -> <<400, "INVALID_VALUE">>

-----------------------------------------------------------------------------
FetchTypeOK ==
  /\ stage \in Stages /\ outcome \in Outcomes
  /\ ref \in Refs /\ dns \in Answers
  /\ pinned \in Addrs \cup {NoAddr}
  /\ dialled \in Seq(Addrs)
  /\ reply \in Replies \cup {NoReply}
  /\ got \in Nat /\ elapsed \in Nat

\* Every address dialled is a public one, and it is dialled for an https
\* reference to a host the operator listed, whatever the resolver answers
\* between the check and the connection (fetch.go pin, dialPinned).
DialsVetted ==
  \A i \in DOMAIN dialled :
    /\ dialled[i].net = "public"
    /\ ref.kind = "remote" /\ ref.scheme = "https" /\ AllowRemote
    /\ \E e \in Allowlist : e.name = ref.host.name

\* One reference costs one connection: a redirect is refused, not followed
\* (fetch.go client).
OneConnection == Len(dialled) <= 1

\* An image is relayed whole or not at all: never over the cap, never cut at
\* it, never something that is not an image (fetch.go Fetch).
WholeImage ==
  outcome = "ok" => got = reply.size /\ got <= MaxBytes /\ reply.image

\* Everything a fetch waits for is drawn from one budget: an image that is
\* relayed arrived inside it, and a refusal is never later (fetch.go Fetch).
OneBudget == /\ elapsed <= Timeout
             /\ outcome = "ok" => elapsed < Timeout

\* A fetch keeps its guard from the first lookup to the last byte: one vetted
\* address, one connection, a whole image, one budget (Fetch).
FetchSound == DialsVetted /\ OneConnection /\ WholeImage /\ OneBudget
=============================================================================
