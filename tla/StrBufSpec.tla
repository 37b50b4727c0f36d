----------------------------- MODULE StrBufSpec -----------------------------
(***************************************************************************)
(* What strbuf.h promises: a text that grows by what is appended to it, is *)
(* handed out as it is, and is never changed by the management of memory.  *)
(* Lengths are numbers here, they do not wrap.  Every call that may have   *)
(* to allocate may stop the program (alloc_error()) instead; nothing       *)
(* happens after that.  The calls are visible, with their argument or      *)
(* their result.                                                           *)
(***************************************************************************)
EXTENDS Integers

VARIABLES
  text,  \* length of the text
  on,    \* is the program still running?
  op     \* the last call and its number

vars == <<text, on, op>>

Init == text = 0 /\ on = TRUE /\ op = <<"none", 0>>

(* strbuf_init(), strbuf_assign_*() and strbuf_clear() set a new text.     *)
Assign == op'[1] = "assign" /\ text' = op'[2]

Append == op'[1] = "append" /\ text' = text + op'[2]

(* The number is strlen() of the result.                                   *)
ToStr == op' = <<"to_str", text>> /\ text' = text

(* The number is the length that strbuf_xfer() stores through its pointer. *)
Xfer == op' = <<"xfer", text>> /\ text' = 0

(* strbuf_allocate() and strbuf_shrink() change nothing that can be seen,  *)
(* and neither does free().                                                *)
Resize == op' = <<"resize", 0>> /\ text' = text
Free   == op' = <<"free", 0>> /\ text' = text

Stop == on' = FALSE /\ op'[1] \notin {"free", "none"}

Next ==
  /\ on
  /\ \/ on' = TRUE /\ (Assign \/ Append \/ ToStr \/ Xfer \/ Resize \/ Free)
     \/ Stop

Spec == Init /\ [][Next]_vars

============================================================================
