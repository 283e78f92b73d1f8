-------------------------------- MODULE Scrub --------------------------------
(***************************************************************************)
(* src/src/secrets.rs: the redaction every text passes before it is shown  *)
(* or kept.  A text is a sequence of tokens, each a maximal piece of it    *)
(* that the three passes of scrub_line treat alike:                        *)
(*                                                                         *)
(*   "key"       a name out of SECRET_KEYS, in any case                    *)
(*   "bearer"    that word, in any case                                    *)
(*   "jwt"       a token that starts with eyJ and has two dots             *)
(*   "value"     letters and digits that are a secret                      *)
(*   "word"      any other letters and digits                              *)
(*   "dash"      one of . _ and -                                          *)
(*   "eq" "colon" "semi" "comma"   =   :   ; and &   , and ?               *)
(*   "space" "newline"             a space, a line end                     *)
(*   "redacted"  ***REDACTED***                                            *)
(*                                                                         *)
(* Two letter-or-digit tokens in a row are one word of the text, so that   *)
(* <<"word", "key">> stands for a name that ends like a secret's.  Tabs    *)
(* and the other white space are left out.                                 *)
(*                                                                         *)
(* Operators named Faulty... are no part of the model, see AimdLimiter.    *)
(***************************************************************************)
EXTENDS Naturals, Sequences, SequencesExt

Alphanumeric == {"key", "bearer", "jwt", "value", "word"}
White        == {"space", "newline"}
Tokens       == Alphanumeric \cup White
                  \cup {"dash", "eq", "colon", "semi", "comma", "redacted"}

-----------------------------------------------------------------------------
(* key=value inside a word *)

\* redact_glued_pairs.  `piece` is what came since the last separator: the key
\* of the pair if an equals sign follows.  A value runs to the next ; or &.
GluedStep(s, t) ==
  CASE s.mode = "key" /\ t = "eq" ->
         IF s.piece = <<"key">>
         THEN [out |-> s.out \o <<"eq", "redacted">>, piece |-> << >>, mode |-> "hide"]
         ELSE [out |-> Append(s.out, "eq"), piece |-> << >>, mode |-> "show"]
    [] s.mode = "key" /\ t \in {"semi", "comma"} ->
         [s EXCEPT !.out = Append(@, t), !.piece = << >>]
    [] s.mode = "key" /\ t \notin {"eq", "semi", "comma"} ->
         [s EXCEPT !.out = Append(@, t), !.piece = Append(@, t)]
    [] s.mode # "key" /\ t = "semi" ->
         [out |-> Append(s.out, t), piece |-> << >>, mode |-> "key"]
    [] s.mode = "show" /\ t # "semi" -> [s EXCEPT !.out = Append(@, t)]
    [] s.mode = "hide" /\ t # "semi" -> s

RedactGluedPairs(word) ==
  FoldLeft(GluedStep, [out |-> << >>, piece |-> << >>, mode |-> "key"], word).out

-----------------------------------------------------------------------------
(* Words *)

\* A word is complete: it is redacted if a bare `key:` came before it, kept if
\* it is one, else searched for pairs.
WordEnds(s) ==
  CASE s.word = << >> -> s
    [] s.word # << >> /\ s.pending ->
         [out |-> Append(s.out, "redacted"), word |-> << >>, pending |-> FALSE]
    [] ~s.pending /\ s.word = <<"key", "colon">> ->
         [out |-> s.out \o s.word, word |-> << >>, pending |-> TRUE]
    [] OTHER ->
         [out |-> s.out \o RedactGluedPairs(s.word), word |-> << >>, pending |-> FALSE]

\* A `key:` at the end of a line waits for nothing: each line is on its own.
KeyValueStep(s, t) ==
  IF t \notin White THEN [s EXCEPT !.word = Append(@, t)]
  ELSE LET ended == WordEnds(s)
       IN  [ended EXCEPT !.out = Append(@, t), !.pending = @ /\ t # "newline"]

RedactKeyValuePairs(text) ==
  WordEnds(FoldLeft(KeyValueStep, [out |-> << >>, word |-> << >>, pending |-> FALSE], text)).out

-----------------------------------------------------------------------------
(* Tokens *)

FaultyBearerStep(s, t) ==    \* sees the header's word in the tail of a name
  CASE s.mode # "drop" /\ t = "bearer" -> [out |-> Append(s.out, t), mode |-> "header"]
    [] s.mode = "header" /\ t = "space" ->
         [out |-> s.out \o <<"space", "redacted">>, mode |-> "drop"]
    [] s.mode = "drop" /\ t \notin White -> s
    [] OTHER -> [out |-> Append(s.out, t), mode |-> "start"]

\* The header is its word, not the tail of a longer one, and a space.  What
\* follows is dropped up to the next white space, even if that is nothing.
BearerStep(s, t) ==
  CASE s.mode = "start" /\ t = "bearer" -> [out |-> Append(s.out, t), mode |-> "header"]
    [] s.mode = "header" /\ t = "space" ->
         [out |-> s.out \o <<"space", "redacted">>, mode |-> "drop"]
    [] s.mode = "drop" /\ t \notin White -> s
    [] OTHER -> [out |-> Append(s.out, t),
                 mode |-> IF t \in Alphanumeric THEN "inside" ELSE "start"]

RedactBearerTokens(text) == FoldLeft(BearerStep, [out |-> << >>, mode |-> "start"], text).out

\* redact_jwt_like: the token and whatever could belong to it.
JwtStep(s, t) ==
  CASE t = "jwt" /\ s.mode = "copy" -> [out |-> Append(s.out, "redacted"), mode |-> "drop"]
    [] s.mode = "drop" /\ t \in Alphanumeric \cup {"dash"} -> s
    [] OTHER -> [out |-> Append(s.out, t), mode |-> "copy"]

RedactJwtLike(text) == FoldLeft(JwtStep, [out |-> << >>, mode |-> "copy"], text).out

\* scrub.  No pass looks across a newline, so that the passes can be made over
\* the text instead of over each of its lines.
Scrub(text) == RedactJwtLike(RedactBearerTokens(RedactKeyValuePairs(text)))

-----------------------------------------------------------------------------
(* What is asked of it, on texts of up to n tokens *)

TextsUpTo(n) == UNION {[1..k -> Tokens] : k \in 0..n}

\* A text may pass again, as names do on their way from az through the memory
\* into the store, and is the same text afterwards.
Settles(n) == \A t \in TextsUpTo(n) : Scrub(Scrub(t)) = Scrub(t)

\* What holds no secret, nor the key of one, is not touched, a `bearer` inside a
\* longer word or before something else than a space included.
LeavesAlone(n) ==
  \A t \in TextsUpTo(n) :
    (\A i \in DOMAIN t :
       /\ t[i] \notin {"key", "jwt", "value"}
       /\ t[i] = "bearer" => \/ i = Len(t) \/ t[i + 1] # "space"
                             \/ i > 1 /\ t[i - 1] \in Alphanumeric)
    => Scrub(t) = t

\* The shapes that the passes look for, the secret last.  The doc comment promises
\* one more (secrets.rs:29-31), a long opaque token after any word and a colon or
\* an equals sign, which none of them looks for: it is kept.
Shapes ==
  {<<"key", "eq", "value">>, <<"key", "colon", "space", "value">>,
   <<"bearer", "space", "value">>, <<"jwt">>}

\* They are found wherever a word starts, those of one word after a semicolon
\* too, whatever came before and comes after, unless what came before takes the
\* start of the shape for its own secret: a bare `key:` takes the next word,
\* after however many spaces, and a `bearer` what follows its space.
Findable(before, shape, after) ==
  /\ \/ before = << >>
     \/ before[Len(before)] \in White
     \/ before[Len(before)] = "semi" /\ Range(shape) \cap White = {}
  /\ Range(shape) \cap White # {} =>
       \A k \in 1..Len(before) : ~IsSuffix(<<"key", "colon">> \o [i \in 1..k |-> "space"], before)
  /\ shape[1] = "bearer" => ~IsSuffix(<<"bearer", "space">>, before)
  /\ Range(before) \cap {"value", "jwt"} = {}
  /\ after = << >> \/ after[1] \in White \cup {"semi"}

Hides(n) ==
  \A shape \in Shapes, before \in TextsUpTo(n), after \in TextsUpTo(1) :
    Findable(before, shape, after) =>
      Range(Scrub(before \o shape \o after)) \cap {"value", "jwt"} = {}
=============================================================================
