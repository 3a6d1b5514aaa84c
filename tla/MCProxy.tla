------------------------------ MODULE MCProxy ------------------------------
(***************************************************************************)
(* A small instance of module Proxy: two exits, one through a SOCKS hop and *)
(* one a tunnel of its own.                                                *)
(***************************************************************************)
EXTENDS Proxy, TLC

Sec   == "10s" :> 10 @@ "-1s" :> -1
Lows  == "T1" :> "t1" @@ "JP" :> "jp"
\* The name site may resolve outside or into the internal network.
Dns   == "site" :> {"out", "in4"} @@ "out" :> {"out"} @@ "link" :> {"link"}
V4    == "map4" :> "in4"

Dir(key, items) == [key |-> key, items |-> items]
Scoped(s) == User(<<Dir("cc", <<"JP">>), Dir("health", <<s>>)>>)
Full      == User(<<Dir("sess", <<"n1">>), Dir("ttl", <<"10s">>), Dir("uniq", <<"b1">>),
                    Dir("bttl", <<"10s">>), Dir("brecycle", <<"1">>),
                    Dir("not", <<"a1", "a2">>), Dir("slot", <<"x1">>)>>)
\* What a user name may look like: parsed, refused, and without directives.
OddUsers ==
    {Full, NoUser, [NoUser EXCEPT !.long = TRUE]} \cup
    {User(<<Dir("any", <<"1">>), d>>) :
        d \in {Dir("city", <<"jp-tyo">>), Dir("any", <<"no">>), Dir("provider", <<"p1">>),
               Dir("bttl", <<"10s">>), Dir("not", <<"site">>), Dir("ttl", <<"-1s">>),
               Dir("cc", <<"", "">>), Dir("slot", <<"x1", "x2">>), Dir("nope", <<"1">>),
               Dir("city", <<>>)}}

Ask(front, host) == [front |-> front, client |-> "lan", pass |-> "pw", user |-> Scoped("t1"),
                     form |-> "ok", host |-> host, port |-> 80]
\* Requests that end in a verdict: clients, credentials, forms, hosts and ports.
Refusals ==
    LET socks == Ask("socks5", "site")
        get   == Ask("forward", "site")
    IN  {[Ask(f, "site") EXCEPT !.client = "wan"] : f \in {"socks5", "connect"}}
        \cup {[Ask(f, "site") EXCEPT !.pass = "none"] : f \in {"socks5", "connect"}}
        \cup {[socks EXCEPT !.form = f] : f \in {"version", "method", "command", "address"}}
        \cup {[get EXCEPT !.form = f] : f \in {"relative", "scheme"}}
        \cup {Ask(f, h) : f \in Fronts, h \in {"in4", "map4"}}
        \cup {[Ask(f, "") EXCEPT !.port = n] : f \in {"connect", "forward"}, n \in {0, 80}}
        \cup {[socks EXCEPT !.pass = "wrong"], [get EXCEPT !.user = NoUser]}
        \cup {[socks EXCEPT !.port = 0], [get EXCEPT !.port = 70000],
              [get EXCEPT !.port = 0, !.form = "https", !.host = "localhost"]}
        \cup {[Ask("connect", "site") EXCEPT !.user = u, !.port = 25] : u \in OddUsers}
\* The first client tries everything; the second only contends for the exits.
MCRequests ==
    "c1" :> Refusals \cup {Ask(f, "site") : f \in Fronts} \cup {Ask("forward", "link")}
    @@ "c2" :> {Ask("forward", "out")}

Locked == [allowed |-> {"lan"}, password |-> "pw", RequireAuth |-> TRUE,
           RequirePolicy |-> TRUE]
=============================================================================
