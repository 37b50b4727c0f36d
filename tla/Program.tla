------------------------------ MODULE Program ------------------------------
(***************************************************************************)
(* A program that uses the small parts of the library: connections to a    *)
(* directory with a pool for their results, a configuration file, the      *)
(* languages of requests, addresses, or sizes.                             *)
(*                                                                         *)
(* They have the heap in common.  One behaviour is about one of them, so   *)
(* that their states add up and do not multiply.                           *)
(***************************************************************************)
EXTENDS Ldap, IniParser, HttpI18n, IpAddress

CONSTANT
  Subjects  \* what behaviours are about

ASSUME SubjectAssumption ==
  Subjects \subseteq {"directory", "config", "request", "address", "sizes"}

VARIABLE subject

vars == <<subject, heapVars, sized, mgmmemVars, ldapVars, iniVars, httpVars, address>>

About(s) == subject = s /\ UNCHANGED subject

Owner == Strdup \/ \E b \in held : Free(b)

Init ==
  /\ subject \in Subjects
  /\ HeapInit /\ SafeCallocInit /\ MgmMemInit /\ LdapInit /\ HttpInit
  /\ IniInit /\ (subject # "config" => text = NoText)
  /\ AddressInit /\ (subject # "address" => address.family = "other" /\ address.uri = <<>>)

(* The program frees what is its own, and what it takes for a result is    *)
(* not the default that it gave.                                           *)
Directory ==
  /\ About("directory")
  /\ \/ MgmMemNext /\ UNCHANGED ldapVars
     \/ LdapNext
     \/ Owner /\ UNCHANGED <<mgmmemVars, ldapVars>>
  /\ UNCHANGED <<sized, iniVars, httpVars, address>>

Configuration ==
  /\ About("config") /\ (IniNext \/ (Owner /\ UNCHANGED iniVars))
  /\ UNCHANGED <<sized, mgmmemVars, ldapVars, httpVars, address>>

Request ==
  /\ About("request") /\ HttpNext
  /\ UNCHANGED <<sized, mgmmemVars, ldapVars, iniVars, address>>

Address ==
  /\ About("address") /\ (ipaddress_parse \/ (UNCHANGED address /\ \E b \in held : Free(b)))
  /\ UNCHANGED <<sized, mgmmemVars, ldapVars, iniVars, httpVars>>

Size ==
  /\ About("sizes") /\ SafeCallocNext
  /\ UNCHANGED <<heapVars, mgmmemVars, ldapVars, iniVars, httpVars, address>>

Next == Directory \/ Configuration \/ Request \/ Address \/ Size

Spec == Init /\ [][Next]_vars

-----------------------------------------------------------------------------
(* A block belongs to the pool or to the program, once, and every block to *)
(* one of them; nothing is freed twice, on no way out of any function.  A  *)
(* function that returns has freed what it allocated for itself; only if   *)
(* calls of the library failed two of them leave something behind:         *)
(* ldap_error_string() its text, and iniparser_getstring_exp() words.      *)
HeapSound ==
  /\ ~ abused
  /\ doing # "stopped" =>
       /\ live = held \cup Entries /\ held \cap Entries = {}
       /\ Cardinality(Entries) = Len(pool.entries)
  /\ Idle => temps \subseteq IF failed THEN {"res", "p"} ELSE {}

(* The pool's entries are within the array that was allocated for them,    *)
(* and the uri of a connection with its NUL byte within its block.         *)
WritesFit ==
  /\ Len(pool.entries) * ENTRY <= pool.room /\ Len(pool.entries) <= pool.cnt_allocated
  /\ "uri" \in temps => conn.len + 1 <= conn.room

=============================================================================
