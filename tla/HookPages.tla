------------------------------ MODULE HookPages ------------------------------
(***************************************************************************)
(* The list of a user's hooks in /hooks, page by page (hooks_list_panel in *)
(* hook_ui.py).  A button carries the number of a page, which may be out   *)
(* of date when it is pressed: hooks have been made or deleted since, or   *)
(* the number was never one of a page.  Hooks are numbered 1 .. n.         *)
(***************************************************************************)
EXTENDS Integers, TLAPS

HOOKS_PAGE_SIZE == 6

AtLeast(a, b) == IF a < b THEN b ELSE a
AtMost(a, b) == IF a > b THEN b ELSE a

(* max(1, ceil(n / HOOKS_PAGE_SIZE)) *)
PageCount(n) == AtLeast((n + HOOKS_PAGE_SIZE - 1) \div HOOKS_PAGE_SIZE, 1)

(* The page that is shown when page number page is asked for. *)
Clamped(n, page) == AtMost(AtLeast(page, 0), PageCount(n) - 1)

Visible(n, page) ==
  {i \in 1 .. n : /\ Clamped(n, page) * HOOKS_PAGE_SIZE < i
                  /\ i <= (Clamped(n, page) + 1) * HOOKS_PAGE_SIZE}

(* The page numbers of the buttons below. *)
Navigation(n, page) ==
  {q \in {Clamped(n, page) - 1, Clamped(n, page) + 1} : 0 <= q /\ q < PageCount(n)}

-----------------------------------------------------------------------------
(* The number of pages fits the number of hooks. *)
LEMMA PageCountFits ==
  ASSUME NEW n \in Nat
  PROVE  /\ PageCount(n) \in Nat \ {0}
         /\ n <= PageCount(n) * HOOKS_PAGE_SIZE
         /\ n > 0 => (PageCount(n) - 1) * HOOKS_PAGE_SIZE < n
  BY DEF PageCount, AtLeast, HOOKS_PAGE_SIZE

(* Any number leads to a page there is, the number of one to itself. *)
LEMMA ClampedInRange ==
  ASSUME NEW n \in Nat, NEW page \in Int
  PROVE  /\ Clamped(n, page) \in 0 .. PageCount(n) - 1
         /\ page \in 0 .. PageCount(n) - 1 => Clamped(n, page) = page
  BY PageCountFits DEF Clamped, AtLeast, AtMost

(* Whatever page number a button carries, however old it is, a user with   *)
(* hooks is shown some of them (hook_ui.py:26-28).                         *)
THEOREM NoPageIsEmpty ==
  ASSUME NEW n \in Nat \ {0}, NEW page \in Int
  PROVE  Visible(n, page) # {}
<1> DEFINE p == Clamped(n, page)
           first == p * HOOKS_PAGE_SIZE + 1
<1>1. p \in Nat /\ p <= PageCount(n) - 1
  BY ClampedInRange, PageCountFits
<1>2. p * HOOKS_PAGE_SIZE <= (PageCount(n) - 1) * HOOKS_PAGE_SIZE
  BY <1>1, PageCountFits DEF HOOKS_PAGE_SIZE
<1>3. first \in 1 .. n
  BY <1>1, <1>2, PageCountFits DEF HOOKS_PAGE_SIZE
<1>4. first \in Visible(n, page)
  BY <1>1, <1>3 DEF Visible, HOOKS_PAGE_SIZE
<1> QED BY <1>4

(* Every hook is on exactly one of the pages (hook_ui.py:26-28). *)
THEOREM EveryHookOnOnePage ==
  ASSUME NEW n \in Nat, NEW i \in 1 .. n
  PROVE  \E page \in 0 .. PageCount(n) - 1 :
           /\ i \in Visible(n, page)
           /\ \A other \in 0 .. PageCount(n) - 1 : i \in Visible(n, other) => other = page
<1> DEFINE page == (i - 1) \div HOOKS_PAGE_SIZE
<1>1. /\ page \in Nat
      /\ page * HOOKS_PAGE_SIZE < i /\ i <= (page + 1) * HOOKS_PAGE_SIZE
  BY DEF HOOKS_PAGE_SIZE
<1>2. page \in 0 .. PageCount(n) - 1
  BY <1>1, PageCountFits DEF HOOKS_PAGE_SIZE
<1>3. Clamped(n, page) = page
  BY <1>2, ClampedInRange, PageCountFits
<1>4. i \in Visible(n, page)
  BY <1>1, <1>3 DEF Visible
<1>5. ASSUME NEW other \in 0 .. PageCount(n) - 1, i \in Visible(n, other)
      PROVE  other = page
  <2>1. Clamped(n, other) = other
    BY ClampedInRange, PageCountFits
  <2>2. other * HOOKS_PAGE_SIZE < i /\ i <= (other + 1) * HOOKS_PAGE_SIZE
    BY <1>5, <2>1 DEF Visible
  <2> QED BY <1>1, <2>2, PageCountFits DEF HOOKS_PAGE_SIZE
<1> QED BY <1>2, <1>4, <1>5

(* The buttons go one page back and one page on, wherever there is one, to *)
(* the page that they name: all pages can be leafed through, and no button *)
(* shows the same page again (hook_ui.py:39-43).                           *)
THEOREM ButtonsLeadToNeighbours ==
  ASSUME NEW n \in Nat, NEW page \in 0 .. PageCount(n) - 1
  PROVE  /\ \A q \in Navigation(n, page) : Clamped(n, q) = q /\ q # page
         /\ \A q \in 0 .. PageCount(n) - 1 :
              q = page - 1 \/ q = page + 1 => q \in Navigation(n, page)
<1>1. Clamped(n, page) = page
  BY ClampedInRange, PageCountFits
<1>2. ASSUME NEW q \in Navigation(n, page)
      PROVE  Clamped(n, q) = q /\ q # page
  <2>1. q \in 0 .. PageCount(n) - 1 /\ q # page
    BY <1>1, <1>2, PageCountFits DEF Navigation
  <2> QED BY <2>1, ClampedInRange, PageCountFits
<1>3. ASSUME NEW q \in 0 .. PageCount(n) - 1, q = page - 1 \/ q = page + 1
      PROVE  q \in Navigation(n, page)
  BY <1>1, <1>3, PageCountFits DEF Navigation
<1> QED BY <1>2, <1>3

(* A button from before one hook was deleted leads to its page, or to the  *)
(* one before if that page was the last and has become empty               *)
(* (hook_ui.py:26-27, bot.py:324-326).                                     *)
THEOREM StaleButtonKeepsThePlace ==
  ASSUME NEW n \in Nat, NEW page \in 0 .. PageCount(n + 1) - 1
  PROVE  \/ Clamped(n, page) = page
         \/ page > 0 /\ Clamped(n, page) = page - 1 /\ n = page * HOOKS_PAGE_SIZE
<1>1. /\ PageCount(n) \in Nat \ {0} /\ PageCount(n + 1) \in Nat \ {0}
      /\ n <= PageCount(n) * HOOKS_PAGE_SIZE
      /\ (PageCount(n + 1) - 1) * HOOKS_PAGE_SIZE < n + 1
  BY PageCountFits
<1>2. CASE page <= PageCount(n) - 1
  BY <1>1, <1>2, ClampedInRange
<1>3. CASE page > PageCount(n) - 1
  <2>1. page = PageCount(n) /\ n = page * HOOKS_PAGE_SIZE
    BY <1>1, <1>3 DEF HOOKS_PAGE_SIZE
  <2>2. Clamped(n, page) = page - 1
    BY <1>1, <2>1 DEF Clamped, AtLeast, AtMost
  <2> QED BY <1>1, <2>1, <2>2
<1> QED BY <1>2, <1>3, <1>1
=============================================================================
