-------------------------------- MODULE Ldap --------------------------------
(***************************************************************************)
(* ldap-open.c and ldap.c: the connection to a directory, its errors, and  *)
(* texts for queries; with the variants of ldap.h that put into a pool     *)
(* what they return.                                                       *)
(*                                                                         *)
(* The strings of the connection are their lengths.  A text to be escaped  *)
(* is a sequence of character codes.                                       *)
(***************************************************************************)
EXTENDS MgmMem, SequencesExt

CONSTANTS
  HostLists,   \* sequences of the lengths of the names that the DNS has for a domain
  Queries,     \* texts to be escaped
  Behind       \* what may lie in memory behind such a text and its NUL byte, as far as it is read

ASSUME HostAssumption == HostLists \subseteq Seq(Nat)

ASSUME QueryAssumption == \A text \in Queries, behind \in Behind : Len(text) <= Len(behind) + 1

VARIABLES
  conn,        \* the connection that is made, or the last one that was
  escaped      \* the last text that was escaped, what was written, and the room for it

ldapVars == <<conn, escaped>>

(* gives: what the call returned.  told: "yes" if it set err_msg of its    *)
(* context, "failed" if it could not.  handle: "bound", or "refused" by    *)
(* the server.  The uri has len characters in room bytes.                  *)
LdapInit ==
  /\ conn = [gives |-> "none", ctx |-> FALSE, told |-> "no", handle |-> "none",
             hosts |-> <<>>, len |-> 0, room |-> 0]
  /\ escaped = [text |-> <<>>, out |-> <<>>, room |-> 1]

-----------------------------------------------------------------------------
(* ensc_ldap_connect(), one step for each call of the library              *)

At(f) == doing = f /\ UNCHANGED <<mgmmemVars, escaped>>

(* It goes on, and owns these.                                             *)
Proceed(f, owned) == Goes(f) /\ temps' = owned /\ Succeeds /\ Keeps

(* xasprintf() with what the context has afterwards: a new message, or     *)
(* NULL if vasprintf() fails.  The message from before belongs to the      *)
(* program, which may still hold it.                                       *)
xasprintf(c) ==
  \/ c.ctx /\ Gives /\ conn' = [c EXCEPT !.told = "yes"]
  \/ c.ctx /\ Keeps /\ conn' = [c EXCEPT !.told = "failed"]
  \/ ~ c.ctx /\ Keeps /\ conn' = c

ReturnsNULL(owned) ==
  /\ xasprintf([conn EXCEPT !.gives = "NULL"])
  /\ temps' = owned /\ Returns /\ Fails

(* The context may have an own init() and any mechanism: the code differs  *)
(* in the functions that are called, not in what it does with the result.  *)
ensc_ldap_connect(ctx) ==
  /\ At("nothing") /\ conn.handle = "none"
  /\ conn' = [conn EXCEPT !.gives = "none", !.ctx = ctx, !.told = "no", !.len = 0, !.room = 0]
  /\ Proceed("ldap_dn2domain", temps)

ldap_dn2domain ==
  /\ At("ldap_dn2domain")
  /\ \/ Proceed("ldap_domain2hostlist", temps \cup {"domain"}) /\ UNCHANGED conn
     \/ ReturnsNULL(temps)

ldap_domain2hostlist ==
  /\ At("ldap_domain2hostlist")
  /\ \/ \E hosts \in HostLists :
          /\ Proceed("uri", (temps \ {"domain"}) \cup {"ldap_servers"})
          /\ conn' = [conn EXCEPT !.hosts = hosts]
     \/ ReturnsNULL(temps \ {"domain"})

(* Seeded fault: there is no room for the blank.                           *)
sizeof_prefix_without_blank == 8

sizeof_prefix == 9    \* sizeof(" ldap://")

(* One host: " " unless it is the first, "ldap://" and its name.           *)
AddHost ==
  /\ At("uri") /\ conn.hosts # <<>>
  /\ \/ /\ Proceed("uri", temps \cup {"uri"})
        /\ conn' = [conn EXCEPT !.hosts = Tail(@),
                      !.room = conn.len + Head(conn.hosts) + sizeof_prefix,
                      !.len = @ + (IF "uri" \in temps THEN 1 ELSE 0) + 7 + Head(conn.hosts)]
     \/ alloc_error /\ UNCHANGED conn

ldap_initialize ==
  /\ At("uri") /\ conn.hosts = <<>>
  /\ \/ Proceed("init", (temps \ {"ldap_servers"}) \cup {"ldap"}) /\ UNCHANGED conn
     \/ ReturnsNULL(temps \ {"ldap_servers", "uri"})

init_ldap ==
  /\ At("init")
  /\ \/ Proceed("bind", temps \ {"uri"}) /\ UNCHANGED conn
     \/ ReturnsNULL(temps \ {"uri", "ldap"})

(* Seeded fault: rc is set to 0 before it is looked at.                    *)
bind_unchecked ==
  /\ At("bind")
  /\ \E handle \in {"bound", "refused", "unbound"} :
       Proceed("nothing", temps \ {"ldap"}) /\ conn' = [conn EXCEPT !.gives = "LDAP", !.handle = handle]

(* A server refuses with a positive code, which counts as success.         *)
bind ==
  /\ At("bind")
  /\ \/ \E handle \in {"bound", "refused"} :
          Proceed("nothing", temps \ {"ldap"}) /\ conn' = [conn EXCEPT !.gives = "LDAP", !.handle = handle]
     \/ ReturnsNULL(temps \ {"ldap"})

(* The program closes it.                                                  *)
ldap_destroy ==
  /\ At("nothing") /\ conn.handle # "none"
  /\ conn' = [conn EXCEPT !.gives = "none", !.handle = "none"]
  /\ Proceed("nothing", temps)

-----------------------------------------------------------------------------
(* ldap.c: "to" the caller, or with ldapm_...() to the pool                *)

Hands(to, b) ==
  \/ to = "caller" /\ MayHold /\ held' = held \cup ({b} \ {NULL}) /\ Returns /\ UNCHANGED mgmmemVars
  \/ to = "pool" /\ pool.ready /\ _mgmmem_xfer(b) /\ UNCHANGED held

(* After an operation on an open connection.  If the message cannot be     *)
(* had, the result of asprintf() is a length and not 0: the text that was  *)
(* to be returned instead is left behind.                                  *)
ldap_error_string(to) ==
  /\ Idle /\ conn.handle # "none"
  /\ \/ New /\ Hands(to, Fresh) /\ Succeeds /\ UNCHANGED temps
     \/ /\ Hands(to, NULL) /\ Fails /\ UNCHANGED <<live, abused>>
        /\ temps' \in {temps, temps \cup {"res"}}
  /\ UNCHANGED <<conn, escaped>>

HEX(n) == IF n < 10 THEN 48 + n ELSE 87 + n    \* "0123456789abcdef"

IsSpecial(c) == c \in {42, 40, 41, 92, 0}      \* * ( ) \ and NUL

Escape(text) ==
  FlattenSeq([i \in DOMAIN text |->
    IF IsSpecial(text[i]) THEN <<92, HEX(text[i] \div 16), HEX(text[i] % 16)>> ELSE <<text[i]>>])

(* The pointer s runs through the text in the first pass, which counts,    *)
(* and on from there in the second one, which writes.                      *)
ldap_escape_query(text, behind, to) ==
  LET cnt == Len(text)
      memory == text \o <<0>> \o behind
      Pass(n) == Escape(SubSeq(memory, (n - 1) * cnt + 1, n * cnt))
  IN  /\ Idle
      /\ \/ /\ escaped' = [text |-> text, out |-> Pass(2), room |-> Len(Pass(1)) + 1]
            /\ New /\ Hands(to, Fresh) /\ Succeeds
         \/ alloc_error /\ UNCHANGED <<mgmmemVars, escaped>>
      /\ UNCHANGED <<temps, conn>>

LdapNext ==
  \/ \E ctx \in BOOLEAN : ensc_ldap_connect(ctx)
  \/ ldap_dn2domain \/ ldap_domain2hostlist \/ AddHost \/ ldap_initialize
  \/ init_ldap \/ bind \/ ldap_destroy
  \/ \E to \in {"caller", "pool"} :
       \/ ldap_error_string(to)
       \/ \E text \in Queries, behind \in Behind : ldap_escape_query(text, behind, to)

-----------------------------------------------------------------------------
(* Whichever of its steps fails, a connection that was not made is         *)
(* explained to a caller with a context; one that is handed out was bound  *)
(* or the server has refused it, and there is no explanation then.         *)
ConnectReports ==
  /\ conn.gives = "NULL" => conn.handle = "none" /\ (conn.ctx <=> conn.told # "no")
  /\ conn.gives = "LDAP" => conn.handle \in {"bound", "refused"} /\ conn.told = "no"

(* ldap_escape_query() counts in "pass #1" what it writes in "pass #2":    *)
(* the result is its argument with the special characters escaped.         *)
EscapesItsArgument == escaped.out = Escape(escaped.text)

=============================================================================
