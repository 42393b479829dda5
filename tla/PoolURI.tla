------------------------------- MODULE PoolURI -------------------------------
(***************************************************************************)
(* libpoolprotocols/PoolURI.cpp: the parser of the -P argument.  A text is *)
(* a sequence of tokens [c, how]: c is a delimiter or a run of other       *)
(* characters, how tells whether it stands as it is, between back ticks or *)
(* URL encoded.  The greedy patterns of the code split at the LAST         *)
(* delimiter they can.                                                     *)
(*                                                                         *)
(* Init chooses the parts somebody wants to convey and how each of them is *)
(* written, as docs/POOL_EXAMPLES_ETH.md describes; the parser only sees   *)
(* the text.                                                               *)
(***************************************************************************)
EXTENDS Integers, Sequences

CONSTANTS
    URISchemes, (* scheme tokens tried, known or not; "" for no scheme      *)
    Names,      (* sequences of tokens' texts for user, worker, password    *)
    Hosts,      (* host texts; "" for none                                  *)
    Ports,      (* port numbers; -1 for none                                *)
    Paths       (* sequences of tokens' texts after the host                *)

VARIABLE uri

Delimiters == {".", ":", "@", "/", "?", "#", "+"}

Plain(s) == [i \in 1..Len(s) |-> [c |-> s[i], how |-> "plain"]]

Texts(s) == [i \in 1..Len(s) |-> s[i].c]

Before(s, i) == SubSeq(s, 1, i - 1)

After(s, i) == SubSeq(s, i + 1, Len(s))

MaxOf(S) == CHOOSE i \in S : \A j \in S : j <= i

-----------------------------------------------------------------------------
(* A name is written between back ticks, or as it is with its delimiters   *)
(* encoded.                                                                *)
Writings(s) ==
    {[i \in 1..Len(s) |-> [c |-> s[i], how |-> "ticks"]],
     [i \in 1..Len(s) |-> [c |-> s[i], how |-> IF s[i] \in Delimiters THEN "encoded" ELSE "plain"]]}

(* user[.worker][:password]@host[:port][path]; an absent part is <<>>.     *)
authorityOf(t) ==
    LET info == t.user \o (IF t.worker = <<>> THEN <<>> ELSE Plain(<<".">>) \o t.worker)
                       \o (IF t.pass = <<>> THEN <<>> ELSE Plain(<<":">>) \o t.pass)
    IN  (IF info = <<>> THEN <<>> ELSE info \o Plain(<<"@">>))
            \o (IF t.host = "" THEN <<>> ELSE Plain(<<t.host>>))
            \o (IF t.port = -1 THEN <<>> ELSE Plain(<<":">>) \o <<[c |-> t.port, how |-> "digits"]>>)
            \o Plain(t.path)

noURI == [m_scheme |-> "", m_userinfo |-> <<>>, m_urlinfo |-> <<>>, m_pathinfo |-> <<>>,
          m_user |-> <<>>, m_worker |-> <<>>, m_password |-> Plain(<<"X">>), m_host |-> <<>>, m_port |-> 0,
          m_path |-> <<>>, m_query |-> <<>>, m_fragment |-> <<>>, m_hostType |-> "Unknown"]

-----------------------------------------------------------------------------
Known == {"stratum+tcp", "stratum1+tcp", "stratum2+tcp", "stratum3+tcp",
          "stratum+tls", "stratum1+tls", "stratum2+tls", "stratum3+tls",
          "stratum+tls12", "stratum1+tls12", "stratum2+tls12", "stratum3+tls12",
          "stratum+ssl", "stratum1+ssl", "stratum2+ssl", "stratum3+ssl",
          "http", "getwork", "stratum", "stratums", "stratumss", "simulation"}

(* std::map's operator[] answers an unknown scheme with a new entry, whose *)
(* family is the first of the enumeration.                                 *)
Family(scheme) ==
    CASE scheme \in {"http", "getwork"} \/ scheme \notin Known -> "GETWORK"
      [] scheme = "simulation" -> "SIMULATION"
      [] OTHER -> "STRATUM"

(* The tokens that match c: before the back ticks are hidden, any but the  *)
(* encoded ones; after, those outside back ticks.                          *)
seen(s, c) == {i \in 1..Len(s) : s[i].how \in {"plain", "ticks"} /\ s[i].c = c}

bare(s, c) == {i \in 1..Len(s) : s[i].how = "plain" /\ s[i].c = c}

(* Where the user info ends: at the last "@", hidden in back ticks or not. *)
atSign(auth) ==
    LET ats == seen(auth, "@")
    IN  IF ats = {} THEN 0 ELSE MaxOf(ats)

(* A URI without "scheme://" is left as constructed, without an error.     *)
splitScheme ==
    /\ uri.phase = "scheme"
    /\ LET s == uri.text.scheme
           auth == authorityOf(uri.text)
           at == atSign(auth)
       IN  uri' =
            CASE s = "" -> [uri EXCEPT !.phase = "made"]
              [] s # "" /\ (auth = <<>> \/ s = "simulation" \/ s \notin Known) ->
                    [uri EXCEPT !.phase = "throw"]
              [] OTHER ->
                    [uri EXCEPT !.phase = "user", !.u.m_scheme = s,
                        !.u.m_userinfo = Before(auth, at),
                        !.u.m_urlinfo = After(auth, at)]

(* Mutant: the pattern user:password is tried first.                       *)
splitUserinfoColonFirst(u) ==
    LET s == u.m_userinfo
        colons == bare(s, ":")
        dots == bare(s, ".")
    IN  IF colons # {} THEN
            [u EXCEPT !.m_user = Before(s, MaxOf(colons)), !.m_password = After(s, MaxOf(colons))]
        ELSE IF dots # {} THEN
            [u EXCEPT !.m_user = Before(s, MaxOf(dots)), !.m_worker = After(s, MaxOf(dots))]
        ELSE [u EXCEPT !.m_user = s]

(* The three patterns in their order: user.worker:password, user:password, *)
(* user.worker; none of them: all of it is the user.                       *)
splitUserinfo(u) ==
    LET s == u.m_userinfo
        colons == bare(s, ":")
        dots == bare(s, ".")
        dotsBefore == {i \in dots : \E j \in colons : i < j}
    IN  IF dotsBefore # {} THEN
            LET i == MaxOf(dotsBefore)
                j == MaxOf(colons)
            IN  [u EXCEPT !.m_user = Before(s, i), !.m_worker = SubSeq(s, i + 1, j - 1), !.m_password = After(s, j)]
        ELSE IF colons # {} THEN
            [u EXCEPT !.m_user = Before(s, MaxOf(colons)), !.m_password = After(s, MaxOf(colons))]
        ELSE IF dots # {} THEN
            [u EXCEPT !.m_user = Before(s, MaxOf(dots)), !.m_worker = After(s, MaxOf(dots))]
        ELSE [u EXCEPT !.m_user = s]

splitUser ==
    /\ uri.phase = "user"
    /\ uri' = [uri EXCEPT !.phase = "host", !.u = IF @.m_userinfo = <<>> THEN @ ELSE splitUserinfo(@)]

(* Host names are case insensitive; "EXIT" must be found as "exit".        *)
to_lower(c) == IF c = "EXIT" THEN "exit" ELSE c

(* from_string takes no brackets: an IPv6 address in them is no address.   *)
hostType(h) ==
    CASE h = Plain(<<"10.0.0.1">>) -> "IPV4"
      [] h = Plain(<<"[::1]">>) -> "Basic"
      [] OTHER -> IF Len(h) = 1 THEN "Dns" ELSE "Basic"

(* The path starts at the first "/"; what follows the last ":" is the port *)
(* if it has one to five digits, and must then fit 16 bits.                *)
splitHost ==
    /\ uri.phase = "host"
    /\ LET s == uri.u.m_urlinfo
           slash == bare(s, "/")
           first == CHOOSE i \in slash : \A j \in slash : i <= j
           info == IF slash = {} THEN s ELSE Before(s, first)
           n == Len(info)
           hasPort == n > 1 /\ info[n].how = "digits" /\ info[n].c < 100000
           host == IF hasPort THEN SubSeq(info, 1, n - 2) ELSE info
           low == [i \in 1..Len(host) |->
                    IF host[i].how = "digits" THEN host[i] ELSE [host[i] EXCEPT !.c = to_lower(@)]]
       IN  uri' = IF \/ hasPort /\ info[n].c > 65535
                    \/ host = <<>>
                  THEN [uri EXCEPT !.phase = "throw"]
                  ELSE [uri EXCEPT !.phase = "path",
                            !.u.m_host = low, !.u.m_hostType = hostType(low),
                            !.u.m_port = IF hasPort THEN info[n].c ELSE 0,
                            !.u.m_pathinfo = IF slash = {} THEN <<>> ELSE SubSeq(s, first, Len(s))]

(* path?query#fragment, path#fragment, path?query, path, in this order.    *)
splitPathinfo(u) ==
    LET s == u.m_pathinfo
        marks == bare(s, "#")
        asks == bare(s, "?")
        asksBefore == {i \in asks : \E j \in marks : i < j}
    IN  IF asksBefore # {} THEN
            LET i == MaxOf(asksBefore)
                j == MaxOf(marks)
            IN  [u EXCEPT !.m_path = Before(s, i), !.m_query = SubSeq(s, i + 1, j - 1), !.m_fragment = After(s, j)]
        ELSE IF marks # {} THEN
            [u EXCEPT !.m_path = Before(s, MaxOf(marks)), !.m_fragment = After(s, MaxOf(marks))]
        ELSE IF asks # {} THEN
            [u EXCEPT !.m_path = Before(s, MaxOf(asks)), !.m_query = After(s, MaxOf(asks))]
        ELSE [u EXCEPT !.m_path = s]

splitPath ==
    /\ uri.phase = "path"
    /\ uri' = [uri EXCEPT !.phase = "decode", !.u = IF @.m_pathinfo = <<>> THEN @ ELSE splitPathinfo(@)]

(* Back ticks are gone by now, and do not protect from the decoding.       *)
url_decode(s) ==
    [i \in 1..Len(s) |-> [c |-> IF s[i].how \in {"plain", "ticks"} /\ s[i].c = "+" THEN " " ELSE s[i].c, how |-> "decoded"]]

decode ==
    /\ uri.phase = "decode"
    /\ uri' = [uri EXCEPT !.phase = "made",
            !.u.m_userinfo = url_decode(@), !.u.m_urlinfo = url_decode(@), !.u.m_pathinfo = url_decode(@),
            !.u.m_path = url_decode(@), !.u.m_query = url_decode(@), !.u.m_fragment = url_decode(@),
            !.u.m_user = url_decode(@), !.u.m_password = url_decode(@), !.u.m_worker = url_decode(@)]

-----------------------------------------------------------------------------
URIInit ==
    \E s \in URISchemes, user, worker, pass \in Names, h \in Hosts, p \in Ports, path \in Paths :
        \E uw \in Writings(user), ww \in Writings(worker), pw \in Writings(pass) :
            /\ user = <<>> => worker = <<>> /\ pass = <<>>
            /\ uri = [phase |-> "scheme", u |-> noURI, want |-> [user |-> user, worker |-> worker, pass |-> pass],
                      text |-> [scheme |-> s, user |-> uw, worker |-> ww, pass |-> pw,
                                host |-> h, port |-> p, path |-> path]]

URINext == splitScheme \/ splitUser \/ splitHost \/ splitPath \/ decode

-----------------------------------------------------------------------------
Accepted == uri.phase = "made"

TickedPlus(part) == \E i \in DOMAIN part : part[i] = [c |-> "+", how |-> "ticks"]

(***************************************************************************)
(* Whatever delimiters the account, the worker and the password contain,   *)
(* enclosing them in back ticks or encoding them conveys them unchanged to *)
(* the pool's login (URI::UserDotWorker, Pass), for every host, port and   *)
(* path whose characters are encoded as the documentation asks; only a "+" *)
(* has to be encoded (TicksConvey).                                        *)
(***************************************************************************)
CredentialsConveyed ==
    Accepted /\ uri.u.m_scheme # "" =>
        /\ Texts(uri.u.m_user) = uri.want.user \/ TickedPlus(uri.text.user)
        /\ Texts(uri.u.m_worker) = uri.want.worker \/ TickedPlus(uri.text.worker)
        /\ \/ Texts(uri.u.m_password) = IF uri.want.pass = <<>> THEN <<"X">> ELSE uri.want.pass
           \/ TickedPlus(uri.text.pass)

(***************************************************************************)
(* The client of the connection is the one of the scheme, and it is told   *)
(* the host, the port and the path of the text: no part of the credentials *)
(* leaks into them.                                                        *)
(***************************************************************************)
EndpointConveyed ==
    Accepted /\ uri.u.m_scheme # "" =>
        /\ Family(uri.u.m_scheme) = Family(uri.text.scheme)
        /\ Texts(uri.u.m_host) = <<to_lower(uri.text.host)>>
        /\ uri.u.m_port = IF uri.text.port = -1 THEN 0 ELSE uri.text.port
        /\ Texts(uri.u.m_path) \o (IF uri.u.m_query = <<>> THEN <<>> ELSE <<"?">> \o Texts(uri.u.m_query))
              \o (IF uri.u.m_fragment = <<>> THEN <<>> ELSE <<"#">> \o Texts(uri.u.m_fragment)) = uri.text.path

-----------------------------------------------------------------------------
(* Expectations the code does not meet (README, Deviations).               *)

(***************************************************************************)
(* "Host info must be present and valued": every URI the constructor       *)
(* accepts names a host to connect to.                                     *)
(***************************************************************************)
HostPresent == Accepted => uri.u.m_host # <<>>

(* "either enclose the string in backticks" or URL encode: both produce    *)
(* "the very same result" (docs/POOL_EXAMPLES_ETH.md:48, 59), for a "+" as *)
(* well.                                                                   *)
TicksConvey == Accepted /\ uri.u.m_scheme # "" => Texts(uri.u.m_user) = uri.want.user
=============================================================================
