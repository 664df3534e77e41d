------------------------------ MODULE Settings ------------------------------
(***************************************************************************)
(* Where the settings in force come from: the library's own (main.c), the  *)
(* program's defaults (init.cpp), the preferences file (prefs.cpp) and the *)
(* command line (main.cpp), in that order, and what of them set_runtime_   *)
(* values hands to the library.  A setting has the name it has in the      *)
(* preferences file; those without one have the name of their option.      *)
(***************************************************************************)
EXTENDS Integers, SequencesExt

Yes == 1
No == 0

(* set_defaults. *)
Defaults ==
  [threads |-> 4, tries |-> 0, pasv |-> Yes, retrydelay |-> 15, conntimeout |-> 90,
   maxbpsperdl |-> 0, debug |-> No, libdebug |-> Yes, pragmanocache |-> No,
   httpproxy |-> "localhost:3128", httpproxyuser |-> "", httpproxytype |-> 7, usehttpproxy |-> No,
   ftpproxy |-> "localhost:3128", ftpproxyuser |-> "", ftpproxytype |-> 7, useftpproxy |-> No,
   mirrorsreq |-> 40, maxsimulpings |-> 5, maxpingwait |-> 8, defaultftpsearch |-> No,
   ftpsearchserverid |-> 1, displaymode |-> 0, minsearchsize |-> 128,
   netrc |-> Yes, timeout |-> 0, quiet |-> Yes, force |-> No, resume |-> No, getch |-> Yes,
   directory |-> "."]

(* pref_opts. *)
PrefOpts == DOMAIN Defaults \ {"netrc", "timeout", "quiet", "force", "resume", "getch", "directory"}

-----------------------------------------------------------------------------
(***************************************************************************)
(* The preferences file [missing, lines] with lines [key, value, bad].     *)
(***************************************************************************)

(* The setters: what a value out of the range becomes. *)
Within(v, range, other) == IF v \in range THEN v ELSE other
Accepted(key, v) ==
  CASE key = "threads" -> Within(v, 1 .. 30, 4)
    [] key \in {"tries", "maxbpsperdl"} -> Within(v, Nat, 0)
    [] key = "retrydelay" -> Within(v, Nat, 15)
    [] key = "conntimeout" -> Within(v, Nat, 90)
    [] key = "mirrorsreq" -> Within(v, 1 .. 1000, 40)
    [] key \in {"maxsimulpings", "maxpingwait"} -> Within(v, 1 .. 30, 5)
    [] key = "ftpsearchserverid" -> IF v < 0 THEN 0 ELSE Within(v, {0, 1}, 1)
    [] OTHER -> v

Numbers ==
  {"threads", "tries", "maxbpsperdl", "retrydelay", "conntimeout", "mirrorsreq", "maxsimulpings",
   "maxpingwait", "ftpsearchserverid"}

(* Lines that say nothing: comments, unknown names, no value (bad), or a   *)
(* proxy that is no URL (bad).                                             *)
IsSetting(line) == line.key \in PrefOpts /\ ~line.bad

ReadLine(rt, line) ==
  IF IsSetting(line) THEN [rt EXCEPT ![line.key] = Accepted(line.key, line.value)] ELSE rt

(* save_prefs: the name of a proxy's user is empty.                        *)
SavedLine(rt, key) ==
  [key |-> key, value |-> rt[key],
   bad |-> key \in {"httpproxyuser", "ftpproxyuser"} /\ rt[key] = ""]
Saved(rt) ==
  [missing |-> FALSE,
   lines |-> FoldSet(LAMBDA key, lines : Append(lines, SavedLine(rt, key)), <<>>, PrefOpts)]

(* load_prefs: a missing file is written instead of read. *)
LoadPrefs(rt, file) == IF file.missing THEN rt ELSE FoldLeft(ReadLine, rt, file.lines)
FileAfter(rt, file) == IF file.missing THEN Saved(rt) ELSE file

-----------------------------------------------------------------------------
(***************************************************************************)
(* The command line: options [name, arg]; an arg that is no number is -1.  *)
(***************************************************************************)
NumberOf ==
  [k |-> "threads", tries |-> "tries", retry_delay |-> "retrydelay", timeout |-> "timeout",
   pt |-> "maxpingwait", pao |-> "maxsimulpings", max_ftps_servers |-> "mirrorsreq",
   max_bps |-> "maxbpsperdl", min_size |-> "minsearchsize", ftpsid |-> "ftpsearchserverid"]

(* Flags: the setting and its value. *)
FlagOf ==
  [one |-> <<"threads", 1>>, use_port |-> <<"pasv", No>>, search |-> <<"defaultftpsearch", Yes>>,
   no_search |-> <<"defaultftpsearch", No>>, no_curses |-> <<"displaymode", 1>>,
   verbose |-> <<"quiet", No>>, force |-> <<"force", Yes>>, resume |-> <<"resume", No>>,
   no_getch |-> <<"getch", No>>, no_netrc |-> <<"netrc", No>>]

Refused(o) ==
  /\ o.name \in DOMAIN NumberOf
  /\ \/ o.arg < 0
     \/ o.arg = 0 /\ o.name \in {"k", "pt", "pao", "max_ftps_servers"}
     \/ o.arg > 1 /\ o.name = "ftpsid"

Option(rt, o) ==
  CASE o.name \in DOMAIN NumberOf -> [rt EXCEPT ![NumberOf[o.name]] = o.arg]
    [] o.name \in DOMAIN FlagOf -> [rt EXCEPT ![FlagOf[o.name][1]] = FlagOf[o.name][2]]
    [] o.name = "debug" -> [rt EXCEPT !.debug = Yes, !.libdebug = Yes]
    [] o.name = "P" -> [rt EXCEPT !.directory = o.arg]

(* set_runtime_values: what the library gets; use_netrc and the value of   *)
(* --timeout are not among it.  The library has started with its own.      *)
Passed ==
  {"conntimeout", "retrydelay", "pasv", "pragmanocache", "directory", "httpproxy",
   "httpproxyuser", "httpproxytype", "usehttpproxy", "ftpproxy", "ftpproxyuser",
   "ftpproxytype", "useftpproxy", "maxbpsperdl", "libdebug", "tries"}
ProzInit ==
  [key \in Passed \cup {"netrc"} |->
     CASE key = "conntimeout" -> 120
       [] key \in {"httpproxy", "httpproxyuser", "ftpproxy", "ftpproxyuser"} -> ""
       [] OTHER -> Defaults[key]]

SetRuntimeValues(rt) == [key \in DOMAIN ProzInit |-> IF key \in Passed THEN rt[key] ELSE ProzInit[key]]

(* main up to the first window: a refused option ends the program. *)
Exits == [exits |-> TRUE]

(* MUTANT of Main: the library is not told of the options. *)
MainTooEarly(file, options) ==
  LET loaded == LoadPrefs(Defaults, file)
  IN IF \E i \in DOMAIN options : Refused(options[i]) THEN Exits
     ELSE [exits |-> FALSE, rt |-> FoldLeft(Option, loaded, options),
           lib |-> SetRuntimeValues(loaded), file |-> FileAfter(Defaults, file)]

Main(file, options) ==
  LET loaded == LoadPrefs(Defaults, file)
      rt     == FoldLeft(Option, loaded, options)
  IN IF \E i \in DOMAIN options : Refused(options[i]) THEN Exits
     ELSE [exits |-> FALSE, rt |-> rt, lib |-> SetRuntimeValues(rt),
           file |-> FileAfter(Defaults, file)]

-----------------------------------------------------------------------------
(***************************************************************************)
(* What was asked for, as proz --help and the manual page (man/proz.1)     *)
(* put it: the setting an argument is for, the settings a flag is for and  *)
(* how they are to be, and the defaults named there.                       *)
(***************************************************************************)
SaidOfArguments ==
  [k |-> "threads", tries |-> "tries", retry_delay |-> "retrydelay", timeout |-> "conntimeout",
   pt |-> "maxpingwait", pao |-> "maxsimulpings", max_ftps_servers |-> "mirrorsreq",
   max_bps |-> "maxbpsperdl", min_size |-> "minsearchsize", ftpsid |-> "ftpsearchserverid",
   P |-> "directory"]

SaidOfFlags ==
  [resume |-> [keys |-> {"resume"}, to |-> Yes], force |-> [keys |-> {"force"}, to |-> Yes],
   one |-> [keys |-> {"threads"}, to |-> 1], no_netrc |-> [keys |-> {"netrc"}, to |-> No],
   no_getch |-> [keys |-> {"getch"}, to |-> No], debug |-> [keys |-> {"debug", "libdebug"}, to |-> Yes],
   verbose |-> [keys |-> {"quiet"}, to |-> No], no_curses |-> [keys |-> {"displaymode"}, to |-> 1],
   use_port |-> [keys |-> {"pasv"}, to |-> No], search |-> [keys |-> {"defaultftpsearch"}, to |-> Yes],
   no_search |-> [keys |-> {"defaultftpsearch"}, to |-> No]]

SaidDefaults ==
  [threads |-> 4, tries |-> 200, retrydelay |-> 15, conntimeout |-> 180, pasv |-> Yes,
   maxsimulpings |-> 5, maxpingwait |-> 4, mirrorsreq |-> 40]

(* Where the program does not keep its word: --resume sets the value it    *)
(* already has (RESUME is 0, main.h:22-24), nothing reads what --timeout   *)
(* and --no-netrc set, and three defaults are others.                      *)
Unkept == {"resume", "timeout", "no_netrc"}
UnkeptDefaults == {"tries", "conntimeout", "maxpingwait"}

Sets(o, key) ==
  /\ o.name \notin Unkept
  /\ \/ o.name \in DOMAIN SaidOfArguments /\ SaidOfArguments[o.name] = key
     \/ o.name \in DOMAIN SaidOfFlags /\ key \in SaidOfFlags[o.name].keys

To(o) == IF o.name \in DOMAIN SaidOfFlags THEN SaidOfFlags[o.name].to ELSE o.arg

DefaultFor(key) ==
  IF key \in DOMAIN SaidDefaults \ UnkeptDefaults THEN SaidDefaults[key] ELSE Defaults[key]

LastIn(S) == CHOOSE i \in S : \A j \in S : j <= i

(* The last option for it, else the last line of the file, else the        *)
(* default.                                                                *)
AskedFor(file, options, key) ==
  LET opts  == {i \in DOMAIN options : Sets(options[i], key)}
      lines == {i \in DOMAIN file.lines : file.lines[i].key = key /\ IsSetting(file.lines[i])}
  IN IF opts # {} THEN To(options[LastIn(opts)])
     ELSE IF lines # {} THEN file.lines[LastIn(lines)].value
     ELSE DefaultFor(key)

(* Numbers the program can work with, and those it may put in their place. *)
Sane(rt) ==
  /\ rt.threads > 0 /\ rt.mirrorsreq > 0 /\ rt.maxsimulpings > 0 /\ rt.maxpingwait > 0
  /\ {rt.tries, rt.retrydelay, rt.conntimeout, rt.maxbpsperdl} \subseteq Nat
  /\ rt.ftpsearchserverid \in {0, 1}

Usual(key, v) ==
  CASE key \in {"threads", "maxsimulpings", "maxpingwait"} -> v \in 1 .. 30
    [] key = "mirrorsreq" -> v \in 1 .. 1000
    [] key = "ftpsearchserverid" -> v \in {0, 1}
    [] key \in {"tries", "retrydelay", "conntimeout", "maxbpsperdl"} -> v \in Nat
    [] OTHER -> TRUE

(* A setting is in force in the library, if that has it, else in the       *)
(* program; nothing reads "timeout", the number of --timeout.              *)
Heeded == DOMAIN Defaults \ {"timeout"}
InForce(got, key) == IF key \in DOMAIN got.lib THEN got.lib[key] ELSE got.rt[key]

(* A program that does not end at a refused option works with what was     *)
(* asked for, or with a usual number in the place of an unusual one, and   *)
(* an option of which it does not keep what is said changes nothing it     *)
(* works with; the next run with these options, which finds the file this  *)
(* one may have written, works with the same.                              *)
Obeys(file, options, got) ==
  IF \E i \in DOMAIN options : Refused(options[i]) THEN got.exits
  ELSE /\ ~got.exits /\ Sane(got.rt)
       /\ \A key \in Heeded :
            LET asked == AskedFor(file, options, key)
            IN /\ Usual(key, asked) => InForce(got, key) = asked
               /\ Usual(key, InForce(got, key)) \/ InForce(got, key) = asked
       /\ Main(got.file, options).rt = got.rt
=============================================================================
