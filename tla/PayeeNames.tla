----------------------------- MODULE PayeeNames -----------------------------
(***************************************************************************)
(* normalize_payee: the handle the curator is asked to hash, as a text     *)
(* (see Texts) of what the caller typed.                                   *)
(***************************************************************************)
EXTENDS Texts

Protocols == {"https://", "http://"}

(* A text with a "/" in it: the bare separator, or the one of a protocol.  *)
HasSlash(s) == Holds(s, {"/"}) \/ Holds(Lower(s), Protocols)

-----------------------------------------------------------------------------
(* A variant that only knows paypal.me/ (PaypalSpellingsAgree).            *)
OldPaypalUsername(value) ==
  IF Holds(value, {"paypal.me"}) THEN LStrip(After(value, {"/"}), "@") ELSE value

(* What was typed, without its protocol, its query and its fragment, is    *)
(* host/first/second/...                                                   *)
Linked(value) == StartsWith(Lower(value), Protocols)
Path(value) ==
  LStrip(Before(IF Linked(value) THEN Tail(value) ELSE value, {"?", "#"}), "/")
Host(value)     == DropFirst(Lower(Before(Path(value), {"/"})), {"www."})
Segments(value) == After(Path(value), {"/"})
First(value)    == Before(Segments(value), {"/"})
Second(value)   == Before(After(Segments(value), {"/"}), {"/"})

Username(segment) == Lower(Strip(LStrip(segment, "@")))

(* _normalize_paypal_me_username: the two link forms of paypal give up     *)
(* their username, another link stays as it was written, a bare name loses *)
(* its sigil and its capitals.                                             *)
NormalizePaypalMeUsername(value) ==
  LET trimmed == Strip(value)
  IN  CASE Host(trimmed) = <<"paypal.me">> -> Username(First(trimmed))
        [] Host(trimmed) = <<"paypal.com">> ->
             IF Lower(First(trimmed)) = <<"paypalme">> THEN Username(Second(trimmed)) ELSE <<>>
        [] OTHER ->
             IF Linked(trimmed) \/ HasSlash(trimmed) THEN trimmed ELSE Lower(LStrip(trimmed, "@"))

(* The monzo branch: replace() drops every protocol written in lower case, *)
(* then everything up to the first "monzo.me/" goes.                       *)
MonzoLinks(body) == {i \in 1..(Len(body) - 1) : body[i] = "monzo.me" /\ body[i + 1] = "/"}

NormalizeMonzo(text) ==
  LET body  == Without(text, Protocols)
      links == MonzoLinks(body)
      link  == CHOOSE i \in links : \A j \in links : i <= j
  IN  LStrip(IF links = {} THEN body ELSE SubSeq(body, link + 2, Len(body)), "@")

(* A variant whose chime branch prefixes what it finds (HandleIsStable).   *)
EagerPayee(platform, payee) ==
  IF platform = "chime" THEN <<"$">> \o Lower(Strip(payee)) ELSE Strip(payee)

(* normalize_payee, for a payee whose stripped text is not empty.          *)
NormalizePayee(platform, payee) ==
  LET text == Strip(payee) IN
  CASE platform \in {"venmo", "revolut", "wise"} -> LStrip(text, "@")
    [] platform = "cashapp" -> LStrip(text, "$")
    [] platform = "paypal"  -> NormalizePaypalMeUsername(text)
    [] platform = "zelle"   -> Lower(text)
    [] platform = "chime"   -> <<"$">> \o LStrip(Lower(text), "$")
    [] platform = "monzo"   -> NormalizeMonzo(text)
    [] OTHER -> text

(* ValidationError("payee is required") *)
PayeeMissing(payee) == Strip(payee) = <<>>
=============================================================================
