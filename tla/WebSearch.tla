------------------------------ MODULE WebSearch ------------------------------
(***************************************************************************)
(* The tool web_search: how AIToolRegistry::webSearch finds its results in *)
(* the page the search engine sent.  It does not parse the page: it looks  *)
(* for the class name of a result and goes back from there to a tag, so    *)
(* that only where it continues decides whether it gets ahead.             *)
(*                                                                         *)
(* The page is a sequence of the strings the loop looks for, and of text.  *)
(* A position of the code, between two characters, is the index of the     *)
(* string behind it.                                                       *)
(***************************************************************************)
EXTENDS Naturals, Sequences, FiniteSets, SequencesExt

CONSTANTS Elements,     \* pieces of pages, each a sequence of Strings
          MaxElements,  \* bound: pieces of a page
          MaxResults,   \* max_results of the call
          Near          \* a snippet begins less than this behind its title (2000 characters)

Strings == {"<a", "result__a", "result__snippet", "href", ">", "text", "</a>"}

ASSUME WebSearchAssumption ==
  /\ Elements \subseteq Seq(Strings)
  /\ MaxElements \in Nat /\ MaxResults \in 1..10 /\ Near \in Nat

VARIABLES
  page,     \* the pieces of the page
  response, \* the strings in it
  pos,      \* where the search continues
  results,  \* the results found: where the tag begins, what it has, where the snippet's tag is
  at        \* the loop runs ("search") or was left ("returned")

searchVars == <<page, response, pos, results, at>>

SearchInit ==
  /\ page \in SeqOf(Elements, MaxElements)
  /\ response = FlattenSeq(page)
  /\ pos = 1 /\ results = <<>> /\ at = "search"

(* std::string::find and rfind; 0 is npos.  "</a>" also has a '>'.         *)
Find(S, i) == IF i = 0 THEN 0 ELSE SelectInSubSeq(response, i, Len(response), LAMBDA c : c \in S)
RFind(S, i) == SelectLastInSubSeq(response, 1, i, LAMBDA c : c \in S)
TagEnd(i) == Find({">", "</a>"}, i)
ContentEnd(tagEnd) == IF tagEnd = 0 THEN 0 ELSE Find({"</a>"}, tagEnd + 1)

(* A bug: the tag is looked for behind the name.                           *)
TagStart_Behind(i) == Find({"<a"}, i)
TagStart(i) == RFind({"<a"}, i)

(* What stripHtml leaves of a text is more than nothing: it drops the tags *)
(* but for the links of anchors.                                           *)
InTag(i, first) ==
  \E j \in first..(i - 1) :
    response[j] = "<a" /\ \A k \in j..i : response[k] \notin {">", "</a>"}
Visible(first, last) ==
  \E i \in first..last :
    \/ response[i] = "href"
    \/ response[i] \in {"text", "result__a", "result__snippet"} /\ ~InTag(i, first)

(* The next snippet in the page, if it is near, and its tag is closed.     *)
SnippetBehind(contentEnd) ==
  LET snipPos == Find({"result__snippet"}, contentEnd)
      near == snipPos # 0 /\ snipPos - contentEnd < Near
  IN IF near /\ ContentEnd(TagEnd(TagStart(snipPos))) # 0 THEN TagStart(snipPos) ELSE 0

Result(aTagStart, aTagEnd, contentEnd) ==
  [tag |-> aTagStart,
   title |-> Visible(aTagEnd + 1, contentEnd - 1),
   url |-> \E i \in aTagStart..(aTagEnd - 1) : response[i] = "href",
   snippet |-> SnippetBehind(contentEnd)]

-----------------------------------------------------------------------------
(* One action per way through the loop.                                    *)

Searching == at = "search" /\ Len(results) < MaxResults

Full ==
  /\ at = "search" /\ Len(results) = MaxResults
  /\ at' = "returned"
  /\ UNCHANGED <<page, response, pos, results>>

(* No name any more, or a tag or an anchor that does not end.              *)
Break(aPos, aTagStart, contentEnd) ==
  /\ Searching
  /\ aPos = 0 \/ (aTagStart # 0 /\ contentEnd = 0)
  /\ at' = "returned"
  /\ UNCHANGED <<page, response, pos, results>>

(* A bug: the search begins again at the same name.                        *)
SkipName_Stays(aPos, aTagStart) ==
  /\ Searching /\ aPos # 0 /\ aTagStart = 0
  /\ pos' = aPos
  /\ UNCHANGED <<page, response, results, at>>

(* The name stands in front of the first anchor of the page.               *)
SkipName(aPos, aTagStart) ==
  /\ Searching /\ aPos # 0 /\ aTagStart = 0
  /\ pos' = aPos + 1
  /\ UNCHANGED <<page, response, results, at>>

(* A result is pushed unless it is empty; the search continues behind the  *)
(* end of the anchor.                                                      *)
TakeAnchor(aTagStart, aTagEnd, contentEnd) ==
  /\ Searching /\ contentEnd # 0
  /\ \E r \in {Result(aTagStart, aTagEnd, contentEnd)} :
       results' = IF r.title \/ r.url THEN Append(results, r) ELSE results
  /\ pos' = contentEnd + 1
  /\ UNCHANGED <<page, response, at>>

(* The four positions the body of the loop finds.                          *)
Search ==
  \E aPos \in {Find({"result__a"}, pos)} :
  \E aTagStart \in {TagStart(aPos)} :
  \E aTagEnd \in {TagEnd(aTagStart)} :
  \E contentEnd \in {ContentEnd(aTagEnd)} :
    \/ Break(aPos, aTagStart, contentEnd)
    \/ SkipName(aPos, aTagStart)
    \/ TakeAnchor(aTagStart, aTagEnd, contentEnd)

SearchNext == Full \/ Search

(* The loop runs until it is left.                                         *)
SearchSpec == SearchInit /\ [][SearchNext]_searchVars /\ WF_searchVars(SearchNext)

-----------------------------------------------------------------------------
(* A class name outside of a tag, behind an anchor that has neither a text *)
(* nor a link.  From the name the search goes back to that anchor, finds   *)
(* nothing to push and continues in front of the name again.               *)
GoesRound ==
  \E i \in DOMAIN response :
    LET first == TagStart(i)
        last == ContentEnd(TagEnd(first))
    IN /\ response[i] = "result__a" /\ last \in 1..(i - 1)
       /\ ~\E r \in {Result(first, TagEnd(first), last)} : r.title \/ r.url

(* A step of the loop that is not lost: it leaves the loop, pushes a       *)
(* result, of which there are no more than max_results, or goes forward.   *)
MovesOn ==
  \/ at' = "returned"
  \/ Len(results') > Len(results)
  \/ results' = results /\ pos' > pos

(* The search returns on every page on which it does not go round: an      *)
(* anchor in front of the name that has a text or a link is found again,   *)
(* but only until there are max_results of it.                             *)
SearchReturns == ~GoesRound ~> at = "returned"

Has(e, c) == \E i \in DOMAIN e : e[i] = c

(* An anchor: a tag with its class and its link, closed where the content  *)
(* begins, which ends with the first "</a>".  Other pieces name no class.  *)
TagEndsAt(e, g) ==
  /\ 1 < g /\ g < Len(e)
  /\ e[1] = "<a" /\ e[g] = ">" /\ e[Len(e)] = "</a>"
  /\ \A k \in 2..(g - 1) : e[k] \in {"result__a", "result__snippet", "href"}
  /\ \A k \in (g + 1)..(Len(e) - 1) : e[k] \in {"text", ">"}
IsAnchor(e) == \E g \in DOMAIN e : TagEndsAt(e, g)
IsOther(e) == \A k \in DOMAIN e : e[k] \in {"text", ">", "href"}
IsEmpty(e) == IsAnchor(e) /\ ~Has(e, "text") /\ ~Has(e, "href")

IsResult(e) == IsAnchor(e) /\ Has(e, "result__a")
IsSnippet(e) == IsAnchor(e) /\ Has(e, "result__snippet")
OffsetOf(i) == Len(FlattenSeq(SubSeq(page, 1, i - 1)))

(* The snippet of a result is the first behind it, if no result is between *)
(* them and its name is near.                                              *)
FirstOf(e, c) == SelectInSeq(e, LAMBDA x : x = c)
IsNear(i, j) == (OffsetOf(j) + FirstOf(page[j], "result__snippet")) - OffsetOf(i + 1) < Near
SnippetsOf(i) ==
  {j \in i + 1..Len(page) :
     /\ IsSnippet(page[j]) /\ IsNear(i, j)
     /\ ~\E k \in i + 1..j - 1 : IsSnippet(page[k]) \/ IsResult(page[k])}

(* A page as the comments of the function describe it: the class is named  *)
(* in anchors only, and no result that lacks a snippet has another's near. *)
Regular ==
  \A i \in DOMAIN page :
    /\ IsAnchor(page[i]) \/ IsOther(page[i])
    /\ IsResult(page[i]) =>
         SnippetsOf(i) # {} \/ ~\E j \in i + 1..Len(page) : IsSnippet(page[j]) /\ IsNear(i, j)

(* The results of the page up to a piece, and what is expected of one.     *)
Listed(i) == IsResult(page[i]) /\ ~IsEmpty(page[i])
Number(i) == Cardinality({k \in 1..i : Listed(k)})
Expected(i) ==
  [tag |-> OffsetOf(i) + 1, title |-> Has(page[i], "text"), url |-> Has(page[i], "href"),
   snippet |-> IF SnippetsOf(i) = {} THEN 0 ELSE OffsetOf(CHOOSE j \in SnippetsOf(i) : TRUE) + 1]

(* On a regular page the results are the anchors of the class that are not *)
(* empty, in their order, each of them once, with its own link, text and   *)
(* snippet: as many as there are, but no more than max_results.            *)
FindsTheResults ==
  at = "returned" /\ Regular =>
    /\ Len(results) = Min({Number(Len(page)), MaxResults})
    /\ \A i \in DOMAIN page :
         Listed(i) /\ Number(i) <= MaxResults => results[Number(i)] = Expected(i)

=============================================================================
