------------------------------- MODULE Options -------------------------------
(* The options of the server (erishttp_attrs_init, _destroy and eris.util.c): *)
(* what they are set to, whatever the configuration gives for each.           *)
EXTENDS EString

CONSTANT Prefix       \* --prefix

VARIABLE attrs

EERIS_NOTFOUND == 10004

OptionNames ==
  {"user", "pidfile", "daemon", "tcp_nodelay", "tcp_nopush", "log_level", "worker_n", "worker_task_n",
   "rlimit_nofile", "cpuset", "listen", "admin_listen", "backlog", "max_connections", "event_type",
   "timeout", "keepalive", "send_buffer_size", "recv_buffer_size", "header_cache_size",
   "url_max_size", "body_cache_size", "header_max_size", "body_max_size", "log_max_size",
   "log_path", "doc_root"}
Given(g, key) == g[key].value # <<>>
NotFound(g, key) == g[key].rc = EERIS_NOTFOUND

(***************************************************************************)
(* Values.                                                                 *)
(***************************************************************************)
\* eris_int64_t is twice as wide as eris_int_t, and wraps where it overflows.
Int64(n) == Signed(2 * IntBits, n)

\* eris_util_unit_toi64: a digit is added to what there is times a base that
\* grows with every digit; one letter more after the unit ends the number.
UnitChar(x, c) ==
  LET digit == [x EXCEPT !.st = "DIGIT", !.v = Int64(@ * x.base + HexOf(c)), !.base = Int64(@ * 10)]
      Times(n) == [x EXCEPT !.v = Int64(@ * n), !.st = "XB"]
  IN CASE x.st \in {"FINISH", "ERROR"} -> x
       [] x.st = "XB" -> [x EXCEPT !.st = "FINISH"]
       [] x.st \in {"START", "DIGIT"} /\ IsDigit(c) -> digit
       [] x.st = "START" /\ c \in {"-", "+"} ->
            [x EXCEPT !.st = "DIGIT", !.sign = IF c = "-" THEN -1 ELSE 1]
       [] x.st = "DIGIT" /\ c \in {"B", "b"} -> [x EXCEPT !.st = "FINISH"]
       [] x.st = "DIGIT" /\ c \in {"K", "k"} -> Times(1024)
       [] x.st = "DIGIT" /\ c \in {"M", "m"} -> Times(1024 * 1024)
       [] x.st = "DIGIT" /\ c \in {"G", "g"} -> Times(1024 * 1024 * 1024)
       [] x.st = "DIGIT" /\ c = "T" -> Times(1024 * 1024 * 1024 * 1024)
       [] OTHER -> [x EXCEPT !.st = "ERROR"]
UnitToI64(s) ==
  LET x == Loop(UnitChar, [st |-> "START", v |-> 0, sign |-> 1, base |-> 1], s)
  IN Int64(x.v * x.sign)

\* eris_util_cpuset_parse: pairs worker:cpu.  A pair is stored by the character
\* behind it, so that the last one is not; a second digit of the cpu counts for
\* the worker.
CpusetChar(x, c) ==
  LET blank == c \in {" ", "\t"}
      stored == [x EXCEPT !.map = IF x.pidx \in DOMAIN @ THEN [@ EXCEPT ![x.pidx] = x.cpuid] ELSE @,
                          !.base = 1, !.pidx = 0, !.cpuid = 0,
                          !.st = IF blank THEN "PIDX" ELSE "JUMP"]
  IN CASE x.st = "PIDX" /\ IsDigit(c) ->
            [x EXCEPT !.pidx = @ * x.base + HexOf(c), !.base = @ * 10]
       [] x.st = "PIDX" /\ c = ":" -> [x EXCEPT !.base = 1, !.st = "COLON"]
       [] x.st = "COLON" /\ IsDigit(c) ->
            [x EXCEPT !.cpuid = @ * x.base + HexOf(c), !.base = @ * 10, !.st = "PIDX"]
       [] x.st = "JUMP" -> IF blank THEN [x EXCEPT !.st = "PIDX"] ELSE x
       [] OTHER -> stored
CpusetParse(s, n) ==
  LET start == [st |-> "PIDX", base |-> 1, pidx |-> 0, cpuid |-> 0, map |-> [i \in 1..n |-> 0]]
      read[i \in 0..Len(s)] == IF i = 0 THEN start ELSE CpusetChar(read[i - 1], s[i])
  IN read[Len(s)].map

CountOf(g, key, default) ==
  LET n == SignedNumber(IntBits, g[key].value)
  IN IF Given(g, key) /\ n > 0 THEN n ELSE default
SizeOf(g, key, default) ==
  LET n == UnitToI64(g[key].value) IN IF Given(g, key) /\ n > 0 THEN n ELSE default
\* A size that is kept in an eris_int_t: what is tested is the wide number, and
\* what is stored its low half, which may be 0 or negative.
IntSizeOf(g, key, default) ==
  LET n == UnitToI64(g[key].value)
  IN IF Given(g, key) /\ n > 0 THEN Signed(IntBits, n) ELSE default
\* Words are compared whatever their case.
Says(g, key, word) == Given(g, key) /\ StrIsEqual(StrCreate(g[key].value), word, TRUE)
Flag(g, key, word, default) == IF Says(g, key, word) THEN 1 - default ELSE default
\* A path below the prefix, unless it begins with '/'; empty if it is given empty.
PathOption(g, key, default) ==
  CASE Given(g, key) /\ g[key].value[1] = "/" -> g[key].value
    [] Given(g, key) /\ g[key].value[1] # "/" -> Prefix \o <<"/">> \o g[key].value
    [] NotFound(g, key) -> Prefix \o default
    [] OTHER -> <<>>
Address(g, key, default) == IF NotFound(g, key) THEN default ELSE g[key].value

(***************************************************************************)
(* The options.                                                            *)
(***************************************************************************)
Defaults ==
  [user |-> <<"nobody">>, group |-> <<"nobody">>, daemon |-> 1, tcp_nodelay |-> 0, tcp_nopush |-> 0,
   log_level |-> 2, worker_n |-> 1, worker_task_n |-> 8, rlimit_nofile |-> 4096, cpuset_enable |-> 0,
   cpuset |-> <<>>, listen |-> <<>>, admin_listen |-> <<>>, pidfile |-> <<>>, backlog |-> 64,
   max_connections |-> 4096, event_iot |-> "SELECT", timeout |-> 20, keepalive |-> 60,
   send_buffer_size |-> 8192, recv_buffer_size |-> 8192, header_cache_size |-> 4096,
   body_cache_size |-> 8192, url_max_size |-> 1024, header_max_size |-> 4096,
   body_max_size |-> 10 * 1024 * 1024, log_max_size |-> 64 * 1024 * 1024,
   log_path |-> <<>>, doc_root |-> <<>>]

\* What each option is set to.
\* user:group, split at ':', which loses a group of one letter.
User(g) ==
  LET parts == StrSplit(g["user"].value, <<":">>)
  IN [user  |-> IF Len(parts) >= 1 THEN StrText(parts[1]) ELSE Defaults.user,
      group |-> IF Len(parts) >= 2 THEN StrText(parts[2]) ELSE Defaults.group]
Pidfile(g) == [pidfile |-> PathOption(g, "pidfile", <<"/", "var", "/", "run", "/", "erishttp.pid">>)]
Flags(g) == [daemon      |-> Flag(g, "daemon", <<"o", "f", "f">>, Defaults.daemon),
             tcp_nodelay |-> Flag(g, "tcp_nodelay", <<"o", "n">>, Defaults.tcp_nodelay),
             tcp_nopush  |-> Flag(g, "tcp_nopush", <<"o", "n">>, Defaults.tcp_nopush)]
LogLevel(g) ==
  LET n == SignedNumber(IntBits, g["log_level"].value)
  IN [log_level |-> IF Given(g, "log_level") /\ n \in 0..9 THEN n ELSE Defaults.log_level]
Counts(g, names) == [key \in names |-> CountOf(g, key, Defaults[key])]
Workers(g) == Counts(g, {"worker_n", "worker_task_n", "rlimit_nofile"})
Cpuset(g, workers) ==
  [cpuset        |-> CpusetParse(g["cpuset"].value, workers),
   cpuset_enable |-> IF Given(g, "cpuset") THEN 1 ELSE Defaults.cpuset_enable]
Listen(g) == [listen |-> Address(g, "listen", <<"127.0.0.1:9432">>)]
Connections(g) == Counts(g, {"backlog", "max_connections"})
AdminListen(g) == [admin_listen |-> Address(g, "admin_listen", <<"127.0.0.1:9433">>)]
EventType(g) ==
  LET Is(word) == Says(g, "event_type", word)
  IN [event_iot |-> CASE ~Given(g, "event_type") -> Defaults.event_iot
                      [] Is(<<"p", "o", "l", "l">>) -> "POLL"
                      [] Is(<<"e", "p", "o", "l", "l">>) -> "EPOLL"
                      [] Is(<<"k", "q", "u", "e", "u", "e">>) \/ Is(<<"k", "e", "v", "e", "n", "t">>) ->
                           "KQUEUE"
                      [] OTHER -> "SELECT"]
Patience(g) == Counts(g, {"timeout", "keepalive"})
Sizes(g) ==
  [key \in {"send_buffer_size", "recv_buffer_size", "header_cache_size", "url_max_size",
            "body_cache_size"} |->
     IF key \in {"send_buffer_size", "recv_buffer_size"} THEN IntSizeOf(g, key, Defaults[key])
     ELSE SizeOf(g, key, Defaults[key])]
\* The two limits are stored in the sizes of the caches.
HeaderMaxSize(g) ==
  [header_cache_size |-> SizeOf(g, "header_max_size", Sizes(g).header_cache_size)]
BodyMaxSize(g) == [body_cache_size |-> SizeOf(g, "body_max_size", Sizes(g).body_cache_size)]
LogMaxSize(g) == [log_max_size |-> SizeOf(g, "log_max_size", Defaults.log_max_size)]
LogPath(g) == [log_path |-> PathOption(g, "log_path", <<"/", "var", "/", "log">>)]
DocRoot(g) == [doc_root |-> PathOption(g, "doc_root", <<"/", "var", "/", "www", "/", "htdoc">>)]

\* What the options are after parts were stored one after the other.
Stored(parts) ==
  [key \in UNION {DOMAIN parts[i] : i \in DOMAIN parts} |->
     LET last == CHOOSE i \in DOMAIN parts : /\ key \in DOMAIN parts[i]
                                             /\ \A j \in DOMAIN parts : j > i => key \notin DOMAIN parts[j]
     IN parts[last][key]]

\* Mutant of AttrsInit: the map of cpus is made before the workers are counted.
AttrsInitCpusetFirst(g) ==
  Stored(<<Defaults, User(g), Pidfile(g), Flags(g), LogLevel(g), Cpuset(g, Defaults.worker_n),
           Workers(g), Listen(g), Connections(g), AdminListen(g), EventType(g), Patience(g),
           Sizes(g), HeaderMaxSize(g), BodyMaxSize(g), LogMaxSize(g), LogPath(g), DocRoot(g)>>)

AttrsInit(g) ==
  Stored(<<Defaults, User(g), Pidfile(g), Flags(g), LogLevel(g), Workers(g),
           Cpuset(g, Workers(g).worker_n), Listen(g), Connections(g), AdminListen(g), EventType(g),
           Patience(g), Sizes(g), HeaderMaxSize(g), BodyMaxSize(g), LogMaxSize(g), LogPath(g),
           DocRoot(g)>>)

\* The texts go, the numbers stay.
AttrsDestroy(a) ==
  [a EXCEPT !.user = <<>>, !.group = <<>>, !.pidfile = <<>>, !.listen = <<>>, !.admin_listen = <<>>,
            !.log_path = <<>>, !.doc_root = <<>>, !.cpuset = <<>>]

(***************************************************************************)
(* The options of a process: taken once, and given up in the end.          *)
(***************************************************************************)
Loading == attrs = Defaults
\* g is what erishttp_config_get answers for each option.
Take(g) == Loading /\ attrs' = AttrsInit(g)
GiveUp == ~Loading /\ attrs' = AttrsDestroy(attrs)

\* Any answers at all; Config has those of a tree that was read and changed.
Answers == [OptionNames -> [rc : {0, EERIS_NOTFOUND}, value : Seq(STRING)]]
OptionsSpec == Loading /\ [][(\E g \in Answers : Take(g)) \/ GiveUp]_attrs

\* Whatever the files and the calls say, wrong numbers included, the counts,
\* limits and sizes that the server starts with are above 0, and its map of cpus
\* is as long as it has workers, which index it (erishttp.c,
\* erishttp_attrs_init).  Excepted are the sizes of the two socket buffers: the
\* number is tested before it is cut to an eris_int_t.
OptionsUsable ==
  attrs # Defaults =>
    /\ \A k \in {"worker_n", "worker_task_n", "rlimit_nofile", "backlog", "max_connections", "timeout",
                 "keepalive", "header_cache_size", "body_cache_size", "url_max_size",
                 "header_max_size", "body_max_size", "log_max_size"} : attrs[k] > 0
    /\ attrs.log_level \in 0..9
    /\ attrs.cpuset # <<>> => Len(attrs.cpuset) = attrs.worker_n
=============================================================================
