----------------------------- MODULE TextRules ------------------------------
(***************************************************************************)
(* The rules about text that the catalog depends on: which names and slugs *)
(* the value objects accept, how a slug is derived from a name, and what   *)
(* it means for a name to contain a keyword, once as Python sees it and    *)
(* once as the LIKE operator of PostgreSQL does.                           *)
(*                                                                         *)
(* A text is a sequence of characters, and a character stands for its      *)
(* class: two lower case letters or digits, one capital letter, white      *)
(* space, and the characters that a rule treats in its own way.  All are   *)
(* ASCII: Lower stands for str.lower and for lower() of PostgreSQL, which  *)
(* differ beyond it (the final sigma, for one).                            *)
(***************************************************************************)
EXTENDS Naturals, Sequences, FiniteSets, FiniteSetsExt

CONSTANT TextLength   (* the rules are checked for texts up to this length *)
ASSUME TextLengthAssumption == TextLength \in Nat

Alnum == {"a", "b"}
Capital == "A"
White == {" ", "newline"}
Wild == {"percent", "underscore", "escape"}   (* what LIKE does not take literally *)
Chars == Alnum \cup {Capital} \cup White \cup Wild \cup {"-", "!"}

TextsUpTo(n) == UNION {[1..k -> Chars] : k \in 0..n}

Lower(text) == [i \in DOMAIN text |-> IF text[i] = Capital THEN "a" ELSE text[i]]

(* str.strip with the characters in C *)
Strip(text, C) ==
  LET kept == {i \in DOMAIN text : text[i] \notin C}
  IN  IF kept = {} THEN <<>> ELSE SubSeq(text, Min(kept), Max(kept))

(* The characters of text at the positions in P. *)
At(text, P) ==
  [k \in 1..Cardinality(P) |->
     text[CHOOSE p \in P : Cardinality({q \in P : q <= p}) = k]]

-----------------------------------------------------------------------------

(* CategoryName and ItemName store the stripped name and refuse none at    *)
(* all; the limits on length are those of the schemas and not modelled.    *)
StoredName(name) == Strip(name, White)
ValidName(name) == StoredName(name) # <<>>

(* The letters of "category", the slug of a name without usable character. *)
DefaultSlug == <<"b", "a">>

(* Mutant of ToSlug: the hyphens at the ends are not stripped. *)
ToSlugUnstripped(name) ==
  LET low == Lower(name)
      kept == At(low, {i \in DOMAIN low : low[i] \in Alnum \cup White \cup {"-"}})
      hyphens == [i \in DOMAIN kept |-> IF kept[i] \in White THEN "-" ELSE kept[i]]
      once == {i \in DOMAIN hyphens : i > 1 => {hyphens[i - 1], hyphens[i]} # {"-"}}
  IN  IF once = {} THEN DefaultSlug ELSE At(hyphens, once)

(* Lower case, only letters, digits, spaces and hyphens kept, runs of      *)
(* spaces and hyphens replaced by one hyphen, none at either end.  The     *)
(* underscore is gone before it could become a hyphen.                     *)
ToSlug(name) ==
  LET low == Lower(name)
      kept == At(low, {i \in DOMAIN low : low[i] \in Alnum \cup White \cup {"-"}})
      hyphens == [i \in DOMAIN kept |-> IF kept[i] \in White THEN "-" ELSE kept[i]]
      once == {i \in DOMAIN hyphens : i > 1 => {hyphens[i - 1], hyphens[i]} # {"-"}}
      slug == Strip(At(hyphens, once), {"-"})
  IN  IF slug = <<>> THEN DefaultSlug ELSE slug

(* [a-z0-9]+(?:-[a-z0-9]+)* *)
UrlSafe(slug) ==
  /\ slug # <<>>
  /\ \A i \in DOMAIN slug :
       \/ slug[i] \in Alnum
       \/ /\ slug[i] = "-" /\ 1 < i /\ i < Len(slug)
          /\ slug[i + 1] # "-"

(* CategorySlug: the $ of the pattern also matches before a newline at the *)
(* end, so that one such newline passes; the pattern of the request schema *)
(* is matched by another engine, in which it does not.                     *)
ValidSlug(slug) ==
  \/ UrlSafe(slug)
  \/ /\ slug # <<>> /\ slug[Len(slug)] = "newline"
     /\ UrlSafe(SubSeq(slug, 1, Len(slug) - 1))

-----------------------------------------------------------------------------

(* keyword in text *)
Within(keyword, text) ==
  \E k \in 0..Len(text) : /\ k + Len(keyword) <= Len(text)
                          /\ SubSeq(text, k + 1, k + Len(keyword)) = keyword

(* text LIKE pattern, with the backslash as escape character: from[i] are  *)
(* the places of text from which on it matches the pattern from i on.      *)
Like(pattern, text) ==
  LET n == Len(text)
      from[i \in 1..Len(pattern) + 1] ==
        CASE i > Len(pattern) -> {n + 1}
          [] i <= Len(pattern) /\ pattern[i] = "percent" -> {j \in 1..n + 1 : \E k \in from[i + 1] : j <= k}
          [] i <= Len(pattern) /\ pattern[i] = "underscore" -> {j \in 1..n : j + 1 \in from[i + 1]}
          [] i < Len(pattern) /\ pattern[i] = "escape" ->
               {j \in 1..n : pattern[i + 1] = text[j] /\ j + 1 \in from[i + 2]}
          [] OTHER -> {j \in 1..n : pattern[i] = text[j] /\ j + 1 \in from[i + 1]}
  IN  1 \in from[1]

(* Mutant of SqlContains: the name is compared as it is written. *)
SqlContainsCase(keyword, text) == Like(<<"percent">> \o keyword \o <<"percent">>, text)

(* lower(name).contains(keyword): the keyword between two % signs, without *)
(* autoescape.                                                             *)
SqlContains(keyword, text) == Like(<<"percent">> \o keyword \o <<"percent">>, Lower(text))

Plain(text) == \A i \in DOMAIN text : text[i] \notin Wild
Unescaped(text) == \A i \in DOMAIN text : text[i] # "escape"

-----------------------------------------------------------------------------

(* The slug derived from any name is one the constructor of CategorySlug   *)
(* accepts and the schema would: category.py:72 and :114 never raise for   *)
(* it, whatever the name; deriving it again changes nothing.               *)
SlugRules ==
  \A name \in TextsUpTo(TextLength) :
    ValidName(name) =>
      LET slug == ToSlug(StoredName(name))
      IN  UrlSafe(slug) /\ ValidSlug(slug) /\ ToSlug(slug) = slug

(* LIKE finds what Python's "in" finds as long as the keyword has no wild  *)
(* character, and no less as long as it has no escape character            *)
(* (specification_translator.py:71).                                       *)
LikeRules ==
  \A keyword, text \in TextsUpTo(TextLength \div 2) :
    LET found == SqlContains(Lower(keyword), text)
        named == Within(Lower(keyword), Lower(text))
    IN  /\ Plain(keyword) => found = named
        /\ Unescaped(keyword) /\ named => found
=============================================================================
