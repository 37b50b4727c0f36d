------------------------------ MODULE HttpI18n ------------------------------
(***************************************************************************)
(* http-i18n.c: the locale of the process is set to the first language of  *)
(* a request for which the program is translated.                          *)
(*                                                                         *)
(* A request is a sequence of languages, in the order of the header; the   *)
(* weights behind a ";" are skipped.  A language is written in characters  *)
(* that are an "alnum", a "dash" or an "other" one.                        *)
(***************************************************************************)
EXTENDS Heap

CONSTANTS
  Languages,    \* [language |-> its characters]
  LANGUAGES,    \* the table of the code, for some of them: [language |-> locale]
  LocaleOf,     \* what the others become with ".UTF-8": [language |-> locale]
  Installed,    \* the locales that setlocale() knows
  Translated,   \* those that the program has translations for
  MaxLanguages  \* bound: languages in a request

ASSUME RequestAssumption ==
  /\ MaxLanguages \in Nat
  /\ DOMAIN Languages \subseteq DOMAIN LANGUAGES \cup DOMAIN LocaleOf

VARIABLES
  lang,         \* the languages that are left to look at
  request,      \* the request
  locale,       \* the locale of the process
  before        \* the one it had before the request

httpVars == <<lang, request, locale, before>>

HttpInit == lang = <<>> /\ request = <<>> /\ locale = "C" /\ before = "C"

-----------------------------------------------------------------------------
is_valid_lang(l) ==
  \A i \in DOMAIN Languages[l] :
    Languages[l][i] = "alnum" \/ (i > 1 /\ Languages[l][i] = "dash")

Chosen(l) == IF l \in DOMAIN LANGUAGES THEN LANGUAGES[l] ELSE LocaleOf[l]

http_set_locale ==
  /\ Idle
  /\ \E n \in 0 .. MaxLanguages : \E r \in [1 .. n -> DOMAIN Languages] : request' = r /\ lang' = r
  /\ before' = locale
  /\ Goes("http_set_locale") /\ Succeeds /\ Keeps
  /\ UNCHANGED <<temps, locale>>

Skip ==
  /\ doing = "http_set_locale" /\ lang # <<>> /\ ~ is_valid_lang(Head(lang))
  /\ lang' = Tail(lang)
  /\ UNCHANGED <<heapVars, request, locale, before>>

(* Seeded fault: it goes on when it has found one.                         *)
try_until_last ==
  /\ doing = "http_set_locale" /\ lang # <<>> /\ is_valid_lang(Head(lang))
  /\ temps' = temps \cup {"lcbuf"} /\ Goes("http_set_locale") /\ Succeeds /\ Keeps
  /\ locale' = IF Chosen(Head(lang)) \in Installed THEN Chosen(Head(lang)) ELSE locale
  /\ lang' = Tail(lang)
  /\ UNCHANGED <<request, before>>

(* setlocale() has an effect before the code knows whether there is a      *)
(* translation.  With one the loop ends.                                   *)
Try ==
  /\ doing = "http_set_locale" /\ lang # <<>> /\ is_valid_lang(Head(lang))
  /\ \/ /\ temps' = temps \cup {"lcbuf"} /\ Goes("http_set_locale") /\ Succeeds /\ Keeps
        /\ locale' = IF Chosen(Head(lang)) \in Installed THEN Chosen(Head(lang)) ELSE locale
        /\ lang' = IF Chosen(Head(lang)) \in Installed \cap Translated THEN <<>> ELSE Tail(lang)
     \/ alloc_error /\ UNCHANGED <<lang, locale>>
  /\ UNCHANGED <<request, before>>

Done ==
  /\ doing = "http_set_locale" /\ lang = <<>>
  /\ temps' = temps \ {"lcbuf"} /\ Returns /\ Succeeds /\ Keeps
  /\ UNCHANGED httpVars

HttpNext == http_set_locale \/ Skip \/ Try \/ Done

-----------------------------------------------------------------------------
Supported(l) == is_valid_lang(l) /\ Chosen(l) \in Installed \cap Translated

(* Behind a request the locale is that of the first language that is       *)
(* written correctly, installed and translated, whatever came before it,   *)
(* and whatever earlier requests chose.  If there is none the locale is    *)
(* one that the request asked for, without translation, or an old one.     *)
FirstSupported ==
  Idle =>
    \/ \E i \in DOMAIN request :
         /\ Supported(request[i]) /\ \A j \in 1 .. i - 1 : ~ Supported(request[j])
         /\ locale = Chosen(request[i])
    \/ /\ \A i \in DOMAIN request : ~ Supported(request[i])
       /\ locale = before \/ \E i \in DOMAIN request : is_valid_lang(request[i]) /\ locale = Chosen(request[i])

=============================================================================
