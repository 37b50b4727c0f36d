----------------------------- MODULE IniParser -----------------------------
(***************************************************************************)
(* iniparser.c and iniparser-pwdb.c: values of a configuration file.       *)
(*                                                                         *)
(* The text of an entry is, once wordexp() has expanded it, one of         *)
(*   "absent" (the entry is not there), "blank",                           *)
(*   a "word" with a name,                                                 *)
(*   a "number" n, with more behind it: a blank ("space"), or letters      *)
(*   ("junk"), or nothing ("end").                                         *)
(***************************************************************************)
EXTENDS Heap, TypeUtils

CONSTANTS
  LONG_BITS,   \* the width of long; that of int, uid_t and gid_t is INT_BITS
  Texts,       \* of the entry
  Users,       \* the databases: [name |-> [uid, gid]]
  Groups       \* and [name |-> gid]

ASSUME LongAssumption == LONG_BITS \in Nat /\ LONG_BITS >= INT_BITS

VARIABLES
  text,        \* what the file says
  got,         \* the last call and its result
  ids          \* the program's uid and gid

iniVars == <<text, got, ids>>

int == Signed(INT_BITS)
long == Signed(LONG_BITS)
ulong == Unsigned(LONG_BITS)
uid_t == Unsigned(INT_BITS)

NoText == [kind |-> "absent"]

IniInit == text \in Texts /\ got = [call |-> "none"] /\ ids = [uid |-> 0, gid |-> 0]

-----------------------------------------------------------------------------
(* The library                                                             *)

Words(t) == IF t.kind = "blank" THEN 0 ELSE IF t.kind = "number" /\ t.rest = "space" THEN 2 ELSE 1

Clamp(T, n) ==
  IF n > variable_max_value(T) THEN variable_max_value(T)
  ELSE IF n < variable_min_value(T) THEN variable_min_value(T) ELSE n

strtol(t) ==
  IF t.kind # "number" THEN [value |-> 0, erange |-> FALSE, rest |-> t.kind, none |-> TRUE]
  ELSE [value |-> Clamp(long, t.n), erange |-> t.n \notin Values(long), rest |-> t.rest, none |-> FALSE]

(* A number with a minus sign is negated as an unsigned long.              *)
strtoul(t) ==
  LET large == t.n > variable_max_value(ulong) \/ -t.n > variable_max_value(ulong) IN
  IF t.kind # "number" THEN [value |-> 0, erange |-> FALSE, rest |-> t.kind]
  ELSE [value |-> IF large THEN variable_max_value(ulong) ELSE Cast(ulong, t.n),
        erange |-> large, rest |-> t.rest]

-----------------------------------------------------------------------------
(* iniparser_getsec...() and iniparser_getstring_exp(), one step for each  *)
(* call in them that may fail                                              *)

Exp(call) == call \in {"getstring_exp", "getsecstring_exp", "getsecint_exp"}

(* dflt: "NULL" or a word.  For the numbers it is what to return then, and *)
(* the string is asked for with NULL.                                      *)
Get(call, dflt) ==
  /\ Idle
  /\ got' = [call |-> call, dflt |-> dflt, res |-> "none", value |-> 0]
  /\ Goes(IF call = "getstring_exp" THEN "wordexp" ELSE "create_lookup_key")
  /\ UNCHANGED <<live, held, temps, abused, failed, text, ids>>

Result(res, owned) ==
  /\ got' = [got EXCEPT !.res = res]
  /\ temps' = owned
  /\ Goes(IF got.call = "getsecint_exp" THEN "strtol" ELSE "nothing")
  /\ UNCHANGED <<text, ids>>

(* A string for which there is no memory is the default itself.            *)
create_lookup_key ==
  /\ doing = "create_lookup_key" /\ Keeps
  /\ \/ /\ temps' = temps \cup {"key"} /\ Succeeds
        /\ Goes(IF Exp(got.call) THEN "wordexp" ELSE "getstring") /\ UNCHANGED iniVars
     \/ Result("dflt", temps) /\ Fails

(* iniparser_getstring(), _getboolean() and _getint() of the library give  *)
(* the default, or the entry, which stays theirs.                          *)
_iniparser_getstring ==
  /\ doing = "getstring" /\ Keeps /\ Succeeds
  /\ Result(IF text.kind = "absent" THEN "dflt" ELSE "entry", temps \ {"key"})

(* The text that is expanded: the entry's, or a default, which is a word.  *)
Wanted ==
  IF text.kind = "absent" /\ got.dflt # "NULL" /\ got.call # "getsecint_exp"
  THEN [kind |-> "word", name |-> got.dflt] ELSE text

(* Out of memory, wordexp() may have allocated some of the words.          *)
iniparser_getstring_exp ==
  /\ doing = "wordexp"
  /\ \/ Wanted.kind = "absent" /\ Result("NULL", temps \ {"key"}) /\ Succeeds /\ Keeps
     \/ /\ Wanted.kind # "absent" /\ Keeps /\ Fails
        /\ \E words \in {{}, {"p"}} : Result("NULL", (temps \ {"key"}) \cup words)
     \/ /\ Wanted.kind # "absent" /\ Words(Wanted) # 1
        /\ Result("NULL", temps \ {"key"}) /\ Succeeds /\ Keeps
     \/ /\ Wanted.kind # "absent" /\ Words(Wanted) = 1
        /\ \/ got.call # "getsecint_exp" /\ Result("copy", temps \ {"key"}) /\ Succeeds /\ Gives
           \/ got.call = "getsecint_exp" /\ Result("copy", (temps \ {"key"}) \cup {"tmp"}) /\ Succeeds /\ Keeps
           \/ alloc_error /\ UNCHANGED iniVars

(* The value is cut to an int, whatever of a long there was.               *)
iniparser_getsecint_exp ==
  /\ doing = "strtol" /\ Keeps /\ Succeeds
  /\ LET r == strtol(text)
         bad == "tmp" \notin temps \/ r.erange \/ r.none \/ r.rest # "end"
     IN  got' = [got EXCEPT !.res = IF bad THEN "dflt" ELSE "number",
                            !.value = IF bad THEN 0 ELSE Cast(int, r.value)]
  /\ temps' = temps \ {"tmp"} /\ Returns
  /\ UNCHANGED <<text, ids>>

-----------------------------------------------------------------------------
(* iniparser_getuser(), iniparser_getgroup()                               *)

(* Seeded fault: what is no number at all is 0.                            *)
is_number_or_0(t) == ~ strtoul(t).erange

(* "12 x" is a number, and so is a blank.                                  *)
is_number(t) ==
  /\ t.kind # "absent" /\ ~ (strtoul(t).erange /\ strtoul(t).value = variable_max_value(ulong))
  /\ strtoul(t).rest \in {"end", "space", "blank"}

Number == Cast(uid_t, strtoul(text).value)

Asked(call, critical, gid, done) ==
  got' = [call |-> call, critical |-> critical, gid |-> gid, done |-> done, before |-> ids]

(* "gid": does the caller want the user's group, too?  getpwnam() and      *)
(* getgrnam() may fail for a name that is there.  The text "-1" is tested  *)
(* for before; as a number it has the same value.                          *)
iniparser_getuser(critical, gid) ==
  /\ Idle
  /\ \/ text.kind = "absent" /\ Asked("getuser", critical, gid, ~ critical) /\ UNCHANGED ids
     \/ /\ is_number(text) /\ Asked("getuser", critical, gid, TRUE)
        /\ ids' = [ids EXCEPT !.uid = Number]
     \/ /\ text.kind = "word" /\ text.name \in DOMAIN Users /\ Asked("getuser", critical, gid, TRUE)
        /\ ids' = [uid |-> Users[text.name].uid, gid |-> IF gid THEN Users[text.name].gid ELSE ids.gid]
     \/ text.kind # "absent" /\ ~ is_number(text) /\ Asked("getuser", critical, gid, FALSE) /\ UNCHANGED ids
  /\ UNCHANGED <<heapVars, text>>

iniparser_getgroup(critical) ==
  /\ Idle
  /\ \/ text.kind = "absent" /\ Asked("getgroup", critical, TRUE, ~ critical) /\ UNCHANGED ids
     \/ /\ is_number(text) /\ Asked("getgroup", critical, TRUE, TRUE)
        /\ ids' = [ids EXCEPT !.gid = Number]
     \/ /\ text.kind = "word" /\ text.name \in DOMAIN Groups /\ Asked("getgroup", critical, TRUE, TRUE)
        /\ ids' = [ids EXCEPT !.gid = Groups[text.name]]
     \/ text.kind # "absent" /\ ~ is_number(text) /\ Asked("getgroup", critical, TRUE, FALSE) /\ UNCHANGED ids
  /\ UNCHANGED <<heapVars, text>>

IniNext ==
  \/ \E call \in {"getsecstring", "getsecboolean", "getsecint", "getstring_exp", "getsecstring_exp", "getsecint_exp"},
        dflt \in {"NULL", "default"} : Get(call, dflt)
  \/ create_lookup_key \/ _iniparser_getstring \/ iniparser_getstring_exp \/ iniparser_getsecint_exp
  \/ \E critical, gid \in BOOLEAN : iniparser_getuser(critical, gid)
  \/ \E critical \in BOOLEAN : iniparser_getgroup(critical)

-----------------------------------------------------------------------------
IsInt(t) == t.kind = "number" /\ t.rest = "end" /\ t.n \in Values(int)
IsLong(t) == t.kind = "number" /\ t.rest = "end" /\ t.n \in Values(long)
IsId(t) == t.kind = "number" /\ t.rest \in {"end", "space"} /\ t.n \in Values(uid_t)

(* The program is configured as the file says: an entry that is an int is  *)
(* that int, and one that is no number, or too large for a long, is the    *)
(* default, as it is if something failed; a user is the one that the file  *)
(* has by its number or its name, and sets the group only by its name; a   *)
(* call that does not find one changes nothing.  Nothing is claimed of a   *)
(* long that is no int, which the code cuts off, of an id that is cut off, *)
(* nor of a blank id.                                                      *)
AsConfigured ==
  /\ got.call = "getsecint_exp" /\ Idle =>
       /\ got.res = "number" => IsLong(text) /\ (IsInt(text) => got.value = text.n)
       /\ IsInt(text) /\ ~ failed => got.res = "number"
  /\ got.call \in {"getuser", "getgroup"} =>
       LET id == IF got.call = "getuser" THEN "uid" ELSE "gid"
           db == IF got.call = "getuser" THEN [u \in DOMAIN Users |-> Users[u].uid] ELSE Groups
       IN  /\ ~ got.done => ids = got.before
           /\ text.kind = "absent" => ids = got.before /\ got.done = ~ got.critical
           /\ IsId(text) => got.done /\ ids = [got.before EXCEPT ![id] = text.n]
           /\ text.kind = "word" /\ got.done => text.name \in DOMAIN db /\ ids[id] = db[text.name]
           /\ got.call = "getgroup" => ids.uid = got.before.uid

=============================================================================
