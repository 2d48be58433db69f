--------------------------- MODULE MCCdrNetwork ---------------------------
EXTENDS CdrNetwork, TLC

CONSTANTS c1, c2, c3

(* RTSP: who comes and hangs up, what c1 and c2 ask, and how much goes     *)
(* wrong.                                                                  *)
Callers(comes, leaves, a, b, n) ==
    [comes |-> comes, leaves |-> leaves, requests |-> (c1 :> a @@ c2 :> b @@ c3 :> <<>>),
     mishaps |-> n]

MCScripts == {
    Callers({c1, c2}, {c1, c2}, <<"setup_tcp", "play">>, <<>>, 0),
    Callers({c1, c2}, {c1}, <<"setup_udp", "play">>, <<>>, 0),
    Callers({c1, c2}, {c2}, <<"teardown">>, <<"play">>, 0),
    Callers({c1, c2}, {c1, c2}, <<>>, <<>>, 1),
    Callers({c1}, {c1}, <<"query", "setup_tcp", "play", "other", "play", "teardown">>, <<>>, 1),
    Callers({c1}, {c1}, <<"setup_udp", "play", "teardown">>, <<>>, 1),
    Callers({c1, c2, c3}, {c1, c2}, <<>>, <<>>, 0),
    Callers({c1, c2, c3}, {}, <<>>, <<>>, 1)}

(* Phones: who comes and leaves, what c1 and c2 ask, what is announced.    *)
Phones(comes, leaves, a, b, n, k) ==
    [comes |-> comes, leaves |-> leaves, requests |-> (c1 :> a @@ c2 :> b @@ c3 :> <<>>),
     announced |-> ("cut" :> n @@ "photo" :> k)]

MCAppScripts == {
    Phones({c1, c2, c3}, {}, <<>>, <<>>, 0, 0),
    Phones({c1, c2}, {c1, c2}, <<"command">>, <<"command">>, 0, 0),
    Phones({c1, c2}, {c1}, <<"login">>, <<"command">>, 1, 0),
    Phones({c1}, {c1}, <<"login">>, <<>>, 1, 1),
    Phones({}, {}, <<>>, <<>>, 2, 2),
    Phones({c1}, {c1}, <<"short", "crc", "refused", "unknown", "denied">>, <<>>, 0, 0),
    Phones({c1}, {c1}, <<"login", "order">>, <<>>, 1, 0)}

(* The platform: its commands.                                             *)
Do(kind, id, channel, serial) == [kind |-> kind, id |-> id, chn |-> channel, serial |-> serial]
Comes(commandSeq, hurry, again, progress) ==
    [commands |-> commandSeq, hurry |-> hurry, again |-> again, progress |-> progress]

MCPortalScripts == {
    Comes(<<Do("realtime", "media", 0, 1), Do("realtime", "media", 0, 2)>>, TRUE, 2, 0),
    Comes(<<Do("plain", "media", 0, 1), Do("query", "media", 0, 2), Do("plain", "media", 0, 3)>>,
          FALSE, 1, 0),
    Comes(<<Do("upload", "media", 1, 1), Do("realtime", "media", 0, 2)>>, FALSE, 1, 0),
    Comes(<<Do("upload", "media", 1, 1), Do("upload", "media", 1, 1)>>, FALSE, 0, 1),
    Comes(<<Do("upload", "media", 1, 1), Do("upload", "media", 1, 2), Do("stop", "media", 1, 3)>>,
          FALSE, 0, 0),
    Comes(<<Do("upload", "area", 1, 1), Do("stop", "area", 1, 2)>>, FALSE, 0, 0),
    Comes(<<Do("area", "area", 1, 1), Do("stop", "area", 1, 2)>>, FALSE, 0, 1)}

(* The push: start, stop, which opens one, and the commands without video. *)
Video(switch) == [opens |-> TRUE, switch |-> switch]
Other(switch) == [opens |-> FALSE, switch |-> switch]

MCPushScripts == {
    [commands |-> <<Video("hold"), Video("stop"), Video("hold"), Other("hold"), Other("stop"),
                    Video("hold")>>, pairings |-> 2]}
=============================================================================
