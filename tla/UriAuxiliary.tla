---------------------------- MODULE UriAuxiliary ----------------------------
(***************************************************************************)
(* UriAuxiliary::Encode and UriAuxiliary::Decode                           *)
(* (src/ppp/auxiliary/UriAuxiliary.cpp) over byte strings.  A string is a  *)
(* sequence of byte values.  The model builds every string of at most      *)
(* MaxLen bytes over an alphabet, one byte per step, and checks the        *)
(* conversions on each.                                                     *)
(*                                                                         *)
(* UriAuxiliary::Parse over token strings: a token is one character (":",  *)
(* "/", "[", "]", " ", a letter "a", its capital "A"), a scheme word, an   *)
(* IPv4 literal "ip", or a run of decimal digits written as the number it  *)
(* spells.  The URLs checked are a scheme prefix followed by tokens, up to *)
(* MaxUrl tokens in all, built one token per step while input is empty.    *)
(* Name resolution is not in src/: Parse returns the string it would look  *)
(* up, and the address written in brackets, instead of the resolved one.  *)
(***************************************************************************)
EXTENDS Integers, Sequences

CONSTANTS
    Alphabet,   \* byte values strings are made of
    MaxLen,     \* the longest string built
    UrlPrefixes,\* token strings a URL starts with (a scheme and its separator)
    UrlTokens,  \* tokens the rest of a URL is made of
    MaxUrl      \* the longest URL built

ASSUME Alphabet \subseteq 0..255 /\ MaxLen \in Nat /\ MaxUrl \in Nat

VARIABLES
    input,  \* the string passed to Encode
    url     \* the string passed to Parse

SX == INSTANCE SequencesExt

Space == 32     \* ' '
Plus == 43      \* '+'
Percent == 37   \* '%'

\* std::isalnum, or one of - _ . ~
Unreserved(c) ==
    \/ c \in 48..57 \/ c \in 65..90 \/ c \in 97..122
    \/ c \in {45, 95, 46, 126}

\* StringAuxiliary::ToHex of a nibble: '0'..'9', 'A'..'F'.
ToHex(n) == IF n < 10 THEN 48 + n ELSE 55 + n

\* StringAuxiliary::FromHex of a hex digit, either case.
FromHex(c) ==
    CASE c \in 48..57  -> c - 48
      [] c \in 65..70  -> c - 55
      [] c \in 97..102 -> c - 87
      [] OTHER         -> 0

\* The bytes Encode may produce: unreserved ones, '+', '%' and hex digits.
UrlSafe == {c \in 0..255 : Unreserved(c)} \cup {Plus, Percent}

-----------------------------------------------------------------------------
(* Mutated forms of the definitions below. *)

\* Encode that copies a space instead of writing '+'.
EncodeByteSpaceKept(c) ==
    IF Unreserved(c) \/ c = Space THEN <<c>>
    ELSE <<Percent, ToHex(c \div 16), ToHex(c % 16)>>

\* Decode that wants one byte more after '%' than the escape needs.
EscapeFollowsOffByOne(s) == 3 < Len(s)

-----------------------------------------------------------------------------

\* The bytes Encode appends for one input byte.
EncodeByte(c) ==
    IF Unreserved(c) THEN <<c>>
    ELSE IF c = Space THEN <<Plus>>
    ELSE <<Percent, ToHex(c \div 16), ToHex(c % 16)>>

\* Encode: each byte in turn.
RECURSIVE Encode(_)
Encode(s) == IF s = <<>> THEN <<>> ELSE EncodeByte(Head(s)) \o Encode(Tail(s))

\* Decode's (i + 2) < length, with s the input from i on: two bytes follow '%'.
EscapeFollows(s) == 2 < Len(s)

\* Decode: '+' is a space; '%' with two bytes after it is the byte they spell
\* (high << 4 | low), and a '%' without them ends decoding; any other byte is
\* copied.
RECURSIVE Decode(_)
Decode(s) ==
    IF s = <<>> THEN <<>>
    ELSE IF Head(s) = Plus THEN <<Space>> \o Decode(Tail(s))
    ELSE IF Head(s) = Percent
         THEN IF EscapeFollows(s)
              THEN <<(FromHex(s[2]) * 16 + FromHex(s[3])) % 256>>
                       \o Decode(SubSeq(s, 4, Len(s)))
              ELSE <<>>
    ELSE <<Head(s)>> \o Decode(Tail(s))

-----------------------------------------------------------------------------
(* UriAuxiliary::Parse.  A token is an integer: a run of decimal digits is  *)
(* the number it spells, every other token is one of the negative codes     *)
(* below.  Positions are 1-based, and 0 stands for std::string::npos.       *)

Colon == -1
Slash == -2
LBracket == -3
RBracket == -4
Blank == -5
Letter == -6        \* a lower-case letter of a host or path
Capital == -7       \* its capital
IPv4 == -8          \* a host that is an IPv4 literal (from_string accepts it)
Tcp == -10          \* the scheme words
Ppp == -11
Ws == -12
Wss == -13
Http == -14
Https == -15
Ftp == -16          \* a scheme Parse does not know
HTTP == -17         \* "HTTP", which ToLower makes "http"

MinPort == 0        \* IPEndPoint::MinPort
MaxPort == 65535    \* IPEndPoint::MaxPort

IsDigits(t) == t >= 0

\* The decimal digits of a run of digits, most significant first.
RECURSIVE DigitsOf(_)
DigitsOf(n) == IF n < 10 THEN <<n>> ELSE DigitsOf(n \div 10) \o <<n % 10>>

\* One digit more, in unsigned 32-bit arithmetic: acc * 10 + d modulo 2^32,
\* kept as its high and low 16 bits.
AccDigit(acc, d) ==
    LET lo == acc.lo * 10 + d
    IN [lo |-> lo % 65536, hi |-> (acc.hi * 10 + lo \div 65536) % 65536]

\* The accumulated value read as a signed 32-bit int.
Int32(acc) == IF acc.hi >= 32768 THEN (acc.hi - 65536) * 65536 + acc.lo
              ELSE acc.hi * 65536 + acc.lo

\* atoi: glibc's (int) strtol of the leading digits; strtol's long holds the
\* at most 15 digits a URL here has, and the cast keeps its low 32 bits.  0
\* when the string does not start with a digit.
Atoi(s) ==
    LET RECURSIVE Read(_, _)
        Read(t, acc) ==
            IF t # <<>> /\ IsDigits(Head(t))
            THEN Read(Tail(t), SX!FoldLeft(AccDigit, acc, DigitsOf(Head(t))))
            ELSE acc
    IN Int32(Read(s, [lo |-> 0, hi |-> 0]))

\* stl::to_string of a port: its digits, one run.
PortString(p) == <<p>>

\* ToLower of a token.
LowerToken(t) == CASE t = Capital -> Letter [] t = HTTP -> Http [] OTHER -> t

\* LTrim(RTrim(s)): s without its leading and trailing blanks.
Trim(s) ==
    LET kept == {i \in 1..Len(s) : s[i] # Blank}
    IN IF kept = {} THEN <<>> ELSE SubSeq(s, SX!Min(kept), SX!Max(kept))

\* find(pat): the first position at which pat occurs.
Find(s, pat) ==
    LET at == {i \in 1..(Len(s) - Len(pat) + 1) : SubSeq(s, i, i + Len(pat) - 1) = pat}
    IN IF at = {} THEN 0 ELSE SX!Min(at)

\* find_first_of(c), and find_last_of(c) or rfind(c), of one character.
FirstOf(s, c) == SX!SelectInSeq(s, LAMBDA t : t = c)
LastOf(s, c) == SX!SelectLastInSeq(s, LAMBDA t : t = c)

\* The ProtocolType of a scheme, "none" for a scheme Parse refuses.
SchemeProtocol(p) ==
    CASE p = <<Tcp>>   -> "PPP"
      [] p = <<Ppp>>   -> "PPP"
      [] p = <<Wss>>   -> "WebSocketSSL"
      [] p = <<Ws>>    -> "WebSocket"
      [] p = <<Https>> -> "HttpSSL"
      [] p = <<Http>>  -> "Http"
      [] OTHER         -> "none"

\* The port used when the URL gives none in 1..MaxPort: 80 for http and ws,
\* 443 for https and wss, none (Parse fails) for the others.
DefaultPort(protocol) ==
    CASE protocol \in {"Http", "WebSocket"}        -> 80
      [] protocol \in {"HttpSSL", "WebSocketSSL"}  -> 443
      [] OTHER                                     -> MinPort

\* The result of a failed Parse: the out parameters as reset on entry.
ParseFailed ==
    [ok |-> FALSE, url |-> <<>>, hostname |-> <<>>, address |-> <<>>,
     lookup |-> FALSE, path |-> <<>>, port |-> MinPort, protocol |-> "PPP"]

\* The separator: "://", else ":/"; its position and length, 0 if neither.
Separator(s) ==
    IF Find(s, <<Colon, Slash, Slash>>) # 0
    THEN [at |-> Find(s, <<Colon, Slash, Slash>>), len |-> 3]
    ELSE [at |-> Find(s, <<Colon, Slash>>), len |-> 2]

(* Mutated form of SplitPort below. *)

\* SplitPort that reads the port but leaves ":port" on the host.
SplitPortKeepingHost(h) ==
    LET i == LastOf(h, Colon)
    IN CASE i = 0        -> [ok |-> TRUE, host |-> h, port |-> 0]
         [] i >= Len(h)  -> [ok |-> FALSE, host |-> h, port |-> 0]
         [] OTHER        -> [ok |-> TRUE, host |-> h,
                             port |-> Atoi(Trim(SubSeq(h, i + 1, Len(h))))]

\* host_and_path split at its first '/': the path is "/" and what follows
\* the slash (url_string.size() > n holds whenever a slash was found), and
\* "/" when there is no slash.
SplitPath(hp) ==
    LET i == FirstOf(hp, Slash)
    IN IF i # 0 THEN [host |-> SubSeq(hp, 1, i - 1), path |-> <<Slash>> \o SubSeq(hp, i + 1, Len(hp))]
       ELSE [host |-> hp, path |-> <<Slash>>]

\* The first '[' and the last ']' of the host: the address between them is
\* taken out and the host keeps what is around them.  A '[' without a later
\* ']' fails.
SplitBrackets(h) ==
    LET i == FirstOf(h, LBracket)
        n == LastOf(h, RBracket)
    IN CASE i = 0          -> [ok |-> TRUE, host |-> h, address |-> <<>>]
         [] n = 0 \/ i > n -> [ok |-> FALSE, host |-> h, address |-> <<>>]
         [] OTHER          -> [ok |-> TRUE, address |-> SubSeq(h, i + 1, n - 1),
                               host |-> SubSeq(h, 1, i - 1) \o SubSeq(h, n + 1, Len(h))]

\* The last ':' of the host: atoi of what follows it, trimmed, is the port.
\* A ':' that ends the host fails.
SplitPort(h) ==
    LET i == LastOf(h, Colon)
    IN CASE i = 0        -> [ok |-> TRUE, host |-> h, port |-> 0]
         [] i >= Len(h)  -> [ok |-> FALSE, host |-> h, port |-> 0]
         [] OTHER        -> [ok |-> TRUE, host |-> SubSeq(h, 1, i - 1),
                             port |-> Atoi(Trim(SubSeq(h, i + 1, Len(h))))]

\* Parse(url, hostname, address, path, port, protocol, y).  A host that is an
\* address literal is its own address; any other host, and the host of a URL
\* with a bracketed address, is looked up (lookup), and the resolved address
\* (not modelled) replaces the bracketed one when the lookup succeeds.  The
\* URL returned is proto://hostname:port/path.
Parse(u) ==
    LET s   == [i \in 1..Len(Trim(u)) |-> LowerToken(Trim(u)[i])]
        sep == Separator(s)
        hp  == SubSeq(s, sep.at + sep.len, Len(s))
        pr  == SchemeProtocol(SubSeq(s, 1, sep.at - 1))
        sp  == SplitPath(hp)
        br  == SplitBrackets(sp.host)
        po  == SplitPort(br.host)
        host == Trim(po.host)
        port == IF po.port <= MinPort \/ po.port > MaxPort THEN DefaultPort(pr) ELSE po.port
    IN IF \/ s = <<>> \/ sep.at = 0 \/ sep.at + sep.len - 1 >= Len(s)
          \/ pr = "none" \/ ~br.ok \/ ~po.ok \/ port = MinPort
       THEN ParseFailed
       ELSE [ok |-> TRUE,
             url |-> SubSeq(s, 1, sep.at - 1) \o <<Colon, Slash, Slash>> \o host
                       \o <<Colon>> \o PortString(port) \o Trim(sp.path),
             hostname |-> host,
             address |-> IF br.address = <<>> /\ host = <<IPv4>> THEN host ELSE br.address,
             lookup |-> ~(br.address = <<>> /\ host = <<IPv4>>),
             path |-> Trim(sp.path), port |-> port, protocol |-> pr]

-----------------------------------------------------------------------------

Init ==
    /\ input = <<>>
    /\ url = <<>>

\* Environment: the caller's string grows by one byte.
Extend ==
    /\ url = <<>>
    /\ Len(input) < MaxLen
    /\ \E c \in Alphabet : input' = Append(input, c)
    /\ UNCHANGED url

\* Environment: the caller starts over with a new string.
Restart ==
    /\ Len(input) = MaxLen
    /\ input' = <<>>
    /\ UNCHANGED url

\* Environment: a URL is begun with a scheme and separator.
StartUrl ==
    /\ input = <<>> /\ url = <<>>
    /\ \E p \in UrlPrefixes : url' = p
    /\ UNCHANGED input

\* Environment: the URL grows by one token.
ExtendUrl ==
    /\ url # <<>> /\ Len(url) < MaxUrl
    /\ \E t \in UrlTokens : url' = Append(url, t)
    /\ UNCHANGED input

\* Environment: the caller starts over with a new URL.
RestartUrl ==
    /\ Len(url) = MaxUrl
    /\ url' = <<>>
    /\ UNCHANGED input

Next == Extend \/ Restart \/ StartUrl \/ ExtendUrl \/ RestartUrl

Spec == Init /\ [][Next]_<<input, url>>

-----------------------------------------------------------------------------
(* Properties *)

TypeOK ==
    /\ input \in Seq(Alphabet) /\ Len(input) <= MaxLen
    /\ Len(url) <= MaxUrl
    /\ Encode(input) \in Seq(UrlSafe)   \* the encoded string is URL-safe

\* Decode undoes Encode for every string: spaces, '+', '%', bytes above 127
\* and escapes that end the string included.
DecodeInvertsEncode == Decode(Encode(input)) = input

\* The URL Parse returns is in normal form: parsed again it is returned
\* unchanged, with the same scheme, host, port and path, whatever blanks,
\* capitals, bracketed address, out-of-range or missing port and ":/"
\* separator the original had.  The one exception is a host that still holds
\* a '[' once the brackets are taken out ("[]a[" gives host "a["), which
\* Parse refuses when it reads its own URL back.
ParseIsNormalForm ==
    LET r == Parse(url)
    IN r.ok /\ FirstOf(r.hostname, LBracket) = 0 => Parse(r.url).url = r.url

=============================================================================
