-------------------------------- MODULE Logger --------------------------------
(***************************************************************************)
(* debugLine (logger.hpp, fmt.cpp): a buffer, a position and a base that   *)
(* every task shares without a lock.  A task prints with a chain of <<,    *)
(* which appends character by character, and fmt::endl, which sends the    *)
(* buffer to the serial port, empties it and resets the position.  The     *)
(* timer may preempt a task between any two of these accesses, so the      *)
(* writers' steps interleave; only the port has a lock.                    *)
(*                                                                         *)
(* A character is a string of length one; NUL ends a string.               *)
(***************************************************************************)
EXTENDS Integers, Sequences, SequencesExt

CONSTANTS Program,   \* what each writer prints: a sequence of operations
          Char,      \* the characters of texts and numerals
          BUFF_LEN,  \* the buffer's size
          MaxDigits, \* buffer_sz in itoa()
          NUL

Writers == DOMAIN Program

Str(text) == [op |-> "str", text |-> text, num |-> 0]
Num(num) == [op |-> "num", text |-> <<>>, num |-> num]
Base(b) == [op |-> "base", text |-> <<>>, num |-> b]
Endl == [op |-> "endl", text |-> <<>>, num |-> 0]

\* The texts are C strings, and the bases are up to fmt::hex.
Operation == [op : {"str"}, text : Seq(Char), num : {0}]
             \cup [op : {"num"}, text : {<<>>}, num : Nat]
             \cup [op : {"base"}, text : {<<>>}, num : 2 .. 16]
             \cup [op : {"endl"}, text : {<<>>}, num : {0}]

\* itoc() and itoh() for each digit.
Digit == <<"0", "1", "2", "3", "4", "5", "6", "7", "8", "9", "a", "b", "c", "d", "e", "f">>

ASSUME LoggerAssumption == /\ Program \in Seq(Seq(Operation))
                           /\ \A k \in DOMAIN Digit : Digit[k] \in Char
                           /\ NUL \notin Char
                           /\ BUFF_LEN \in Nat \ {0} /\ MaxDigits \in Nat \ {0}

VARIABLES buffer, writer_position, base,  \* debugLine
          serial_lock, \* who holds serial_lock, and who waits for it
          port,        \* what the serial port was sent, up to the first overlap
          done,        \* how many of its operations each writer is through with
          at, text,    \* where it is in the next, and the characters left of it
          reg,         \* what it has read and is about to use
          inside,      \* the writers that have begun a line and not ended it
          said,        \* what the operations begun ask for, up to the first overlap
          overlapped   \* whether two writers were ever inside a line

logVars == <<buffer, writer_position, base, serial_lock, port, done, at, text, reg,
             inside, said, overlapped>>

line == <<buffer, writer_position, base>>
history == <<inside, said, overlapped>>

Nothing == [out |-> <<>>, base |-> 10]

\* The tasks have not begun; the line's buffer is zeroed (fmt.hpp:57-59).
LogInit == /\ buffer = [k \in 0 .. (BUFF_LEN - 1) |-> NUL]
           /\ writer_position = 0 /\ base = 10
           /\ serial_lock = <<>> /\ port = <<>>
           /\ done = [w \in Writers |-> 0]
           /\ at = [w \in Writers |-> "next"]
           /\ text = [w \in Writers |-> <<>>]
           /\ reg = [w \in Writers |-> 0]
           /\ inside = {} /\ said = Nothing /\ overlapped = FALSE

(***************************************************************************)
(* Formatting                                                              *)
(***************************************************************************)
\* itoc() and itoh().
itoc(digit) == Digit[digit + 1]

\* reverse() swaps the characters from both ends until the indices meet.
reverse(s) ==
  LET n == Len(s)
      swap[k \in 0 .. n] ==
        IF k = 0 THEN s
        ELSE LET t == swap[k - 1]
             IN  IF k < n - k + 1 THEN [t EXCEPT ![k] = t[n - k + 1], ![n - k + 1] = t[k]] ELSE t
  IN  swap[n]

\* The loop of itoa(): the lowest digit first, and at most so many of them.
DigitsUp(num, b, room) ==
  LET loop[k \in 0 .. room] ==
        IF k = 0 THEN [num |-> num, text |-> <<>>]
        ELSE LET d == loop[k - 1]
             IN  IF d.num = 0 THEN d
                 ELSE [num |-> d.num \div b, text |-> Append(d.text, itoc(d.num % b))]
  IN  loop[room].text

\* Mutant: one digit less.
MutItoa(num, b) == IF num = 0 THEN <<"0">> ELSE reverse(DigitsUp(num, b, MaxDigits - 1))

itoa(num, b) == IF num = 0 THEN <<"0">> ELSE reverse(DigitsUp(num, b, MaxDigits))

strlen(s) == CHOOSE n \in 0 .. BUFF_LEN : /\ \A k \in 0 .. (n - 1) : s[k] # NUL
                                          /\ n < BUFF_LEN => s[n] = NUL

\* The numeral of num: its digits by their weights, the lowest MaxDigits of
\* them when it has more.
Weight(b) == LET weight[k \in 0 .. MaxDigits] == IF k = 0 THEN 1 ELSE b * weight[k - 1]
             IN  weight

Numeral(num, b) ==
  LET m == CHOOSE k \in 1 .. MaxDigits : /\ k = 1 \/ num >= Weight(b)[k - 1]
                                         /\ k = MaxDigits \/ num < Weight(b)[k]
  IN  [k \in 1 .. m |-> Digit[((num \div Weight(b)[m - k]) % b) + 1]]

\* What the port is to be sent for one more operation: a text, a numeral in
\* the base asked for last, or a terminator at the end of a line.
Saying(s, o) ==
  CASE o.op = "str" -> [s EXCEPT !.out = @ \o o.text]
    [] o.op = "num" -> [s EXCEPT !.out = @ \o Numeral(o.num, s.base)]
    [] o.op = "base" -> [s EXCEPT !.base = o.num]
    [] OTHER -> [s EXCEPT !.out = Append(@, NUL)]

(***************************************************************************)
(* A writer                                                                *)
(***************************************************************************)
Stopped == \E w \in Writers : at[w] = "failed"

Step(w, from, to) == /\ ~Stopped
                     /\ at[w] = from
                     /\ at' = [at EXCEPT ![w] = to]

Read(w, value) == reg' = [reg EXCEPT ![w] = value]

Finish(w) == done' = [done EXCEPT ![w] = @ + 1]

\* operator<<: what is appended is known before the first character is.
Begin(w) ==
  /\ done[w] < Len(Program[w])
  /\ LET o == Program[w][done[w] + 1]
     IN  /\ Step(w, "next", CASE o.op = "endl" -> "lock" [] o.op = "base" -> "next" [] OTHER -> "append")
         /\ text' = [text EXCEPT ![w] = IF o.op = "num" THEN itoa(o.num, base) ELSE o.text]
         /\ base' = IF o.op = "base" THEN o.num ELSE base
         /\ IF o.op = "base" THEN Finish(w) ELSE UNCHANGED done
         /\ inside' = inside \cup {w}
         /\ overlapped' = (overlapped \/ inside \ {w} # {})
         /\ said' = IF overlapped' THEN Nothing ELSE Saying(said, o)
         /\ port' = IF overlapped' THEN <<>> ELSE port
  /\ UNCHANGED <<buffer, writer_position, serial_lock, reg>>

\* appendToBuffer(): the position is read and compared with the size; if the
\* assertion fails, the processor halts with interrupts off (panic.hpp:20-27).
Load(w) == /\ text[w] # <<>>
           /\ Step(w, "append", IF writer_position < BUFF_LEN THEN "bump" ELSE "failed")
           /\ Read(w, writer_position)
           /\ UNCHANGED <<line, serial_lock, port, done, text, history>>

Bump(w) == /\ Step(w, "bump", "store")
           /\ writer_position' = reg[w] + 1
           /\ UNCHANGED <<buffer, base, serial_lock, port, done, text, reg, history>>

Store(w) == /\ Step(w, "store", "append")
            /\ buffer' = [buffer EXCEPT ![reg[w]] = Head(text[w])]
            /\ text' = [text EXCEPT ![w] = Tail(@)]
            /\ UNCHANGED <<writer_position, base, serial_lock, port, done, reg, history>>

Appended(w) == /\ text[w] = <<>>
               /\ Step(w, "append", "next")
               /\ Finish(w)
               /\ UNCHANGED <<line, serial_lock, port, text, reg, history>>

\* flush() sends the buffer with serial_lock held, by order of arrival.
Lock(w) == /\ Step(w, "lock", "wait")
           /\ serial_lock' = Append(serial_lock, w)
           /\ UNCHANGED <<line, port, done, text, reg, history>>

\* send_chars() measures the string ...
Measure(w) == /\ Step(w, "wait", "send")
              /\ Head(serial_lock) = w
              /\ Read(w, strlen(buffer))
              /\ UNCHANGED <<line, serial_lock, port, done, text, history>>

\* What the port is sent; it is followed up to the first overlap, until which
\* nobody else touches the buffer, so that one step stands for the loop.
Put(n) == port' = IF overlapped THEN port
                  ELSE port \o [k \in 1 .. n |-> buffer[k - 1]] \o <<NUL>>

\* Mutant: the lock is kept.
MutSendChars(w) == /\ Step(w, "send", "empty")
                   /\ Put(reg[w])
                   /\ Read(w, 0)
                   /\ UNCHANGED <<line, serial_lock, done, text, history>>

\* ... sends that many characters and a terminator, and unlocks.
SendChars(w) == /\ Step(w, "send", "empty")
                /\ Put(reg[w])
                /\ serial_lock' = Tail(serial_lock)
                /\ Read(w, 0)
                /\ UNCHANGED <<line, done, text, history>>

\* empty_buffer()
Empty(w) == /\ reg[w] < writer_position
            /\ Step(w, "empty", "empty")
            /\ buffer' = [buffer EXCEPT ![reg[w]] = NUL]
            /\ Read(w, reg[w] + 1)
            /\ UNCHANGED <<writer_position, base, serial_lock, port, done, text, history>>

\* Mutant: the position is not reset.
MutReset(w) == /\ reg[w] >= writer_position
               /\ Step(w, "empty", "next")
               /\ Finish(w)
               /\ inside' = inside \ {w}
               /\ UNCHANGED <<line, serial_lock, port, text, reg, said, overlapped>>

\* The last character of the loop, and the end of flush().
Reset(w) == /\ reg[w] >= writer_position
            /\ Step(w, "empty", "next")
            /\ writer_position' = 0
            /\ Finish(w)
            /\ inside' = inside \ {w}
            /\ UNCHANGED <<buffer, base, serial_lock, port, text, reg, said, overlapped>>

Write(w) == \/ Begin(w) \/ Load(w) \/ Bump(w) \/ Store(w) \/ Appended(w)
            \/ Lock(w) \/ Measure(w) \/ SendChars(w) \/ Empty(w) \/ Reset(w)

LogNext == \E w \in Writers : Write(w)

LogSpec == LogInit /\ [][LogNext]_logVars

\* The scheduler's turns give every task the processor.
LogFairSpec == LogSpec /\ \A w \in Writers : WF_logVars(Write(w))

(***************************************************************************)
(* Properties                                                              *)
(***************************************************************************)

\* As long as no two tasks were inside a line at the same time, the port was
\* sent what they printed, line by line, and an idle buffer is as it was at
\* first, so that no line shows the remains of an earlier one.
WholeUnlessOverlap ==
  ~overlapped =>
    /\ IsPrefix(port, said.out)
    /\ inside = {} => port = said.out /\ strlen(buffer) = 0 /\ writer_position = 0

\* Sums(f)[k] adds up the first k of the numbers f.
Sums(f) == LET sums[k \in 0 .. Len(f)] == IF k = 0 THEN 0 ELSE sums[k - 1] + f[k]
           IN  sums

\* The characters of an operation, at most, and of all the lines together.
Width(o) == IF o.op = "num" THEN MaxDigits ELSE Len(o.text)
Widths(w) == Sums([k \in DOMAIN Program[w] |-> Width(Program[w][k])])
Total(w) == Widths(w)[Len(Program[w])]
Characters == Sums([w \in Writers |-> Total(w)])[Len(Program)]

\* The characters of a line up to each of its operations.
Column(w) ==
  LET column[k \in 0 .. Len(Program[w])] ==
        IF k = 0 \/ Program[w][k].op = "endl" THEN 0 ELSE column[k - 1] + Width(Program[w][k])
  IN  column

LinesFit == \A w \in Writers : \A k \in DOMAIN Program[w] : Column(w)[k] <= BUFF_LEN

\* Lines that fit into the buffer never fail its assertion while tasks print
\* one at a time.  If they overlap, a position that was read before a flush
\* comes back after it, and only the characters of all the lines together
\* bound it.
FailsOnlyIf ==
  /\ LinesFit /\ Stopped => overlapped
  /\ writer_position <= Characters

\* Every task gets through its lines, however the prints interleave: the wait
\* for the port ends, and so do the loops over a buffer that others change.
PrintsEnd == <>(Stopped \/ \A w \in Writers : at[w] = "next" /\ done[w] = Len(Program[w]))
===============================================================================
