------------------------------- MODULE Lists -------------------------------
(***************************************************************************)
(* The linked lists of qemu-queue.h and the hand-made ones, and stacks of  *)
(* nested calls, as sequences.  Range and IsInjective give the elements of *)
(* a list and say that it holds each of them once.                         *)
(***************************************************************************)
EXTENDS Naturals, Sequences, Functions

DropAt(s, i) == SubSeq(s, 1, i - 1) \o SubSeq(s, i + 1, Len(s))

\* The list s without its element x (QTAILQ_REMOVE, QLIST_REMOVE, *p = x->next).
Unlink(s, x) == DropAt(s, CHOOSE i \in 1..Len(s) : s[i] = x)

\* QLIST_INSERT_HEAD, or x->next = head; head = x.
Link(x, s) == <<x>> \o s

\* QLIST_FIRST and QLIST_NEXT: a pointer to an element is <<x>>, NULL is <<>>.
First(s)    == IF s = <<>> THEN <<>> ELSE <<s[1]>>
After(s, x) == LET i == CHOOSE j \in 1..Len(s) : s[j] = x
               IN  IF i < Len(s) THEN <<s[i + 1]>> ELSE <<>>

\* The innermost call of a stack, and the stack once it has returned.
Peek(s) == s[Len(s)]
Pop(s)  == SubSeq(s, 1, Len(s) - 1)
=============================================================================
