------------------------------ MODULE UndoHistory ------------------------------
(***************************************************************************)
(* Undo and redo (gui_do/state/command_history.py), with a history per     *)
(* context of which one is active (gui_do/state/undo_context_manager.py).  *)
(*                                                                         *)
(* A command is a number, used once, and a document the sequence of the    *)
(* commands in effect, which is what a history is supposed to know.  An    *)
(* entry of a stack is the sequence of its commands, several for a         *)
(* transaction.  Commands may raise, without effect; what they do does not *)
(* depend on the history they are pushed to.                               *)
(***************************************************************************)
EXTENDS Integers, SequencesExt, SequenceFilter

CONSTANTS
    Histories,     \* CommandHistory objects, each for one document
    Contexts,      \* keys of UndoContextManager
    Watchers,      \* subscribers of the manager, in the order of subscription
    UndoSize,      \* max_size of a history
    MaxCommands,   \* bound: commands ever pushed
    MaxSwitches,   \* bound: changes of the active context
    NoContext      \* no context, no history

ASSUME UndoAssumption ==
    /\ UndoSize \in Nat \ {0} /\ IsFiniteSet(Watchers)
    /\ NoContext \notin Contexts \cup Histories \cup Seq(Nat)

VARIABLES
    undo,          \* _undo_stack of each history, the last entry on top
    redo,          \* _redo_stack
    open,          \* the commands of _open_transaction; NoContext when there is none
    document,      \* the commands in effect
    commands,      \* commands so far
    stacks,        \* _stacks: the history of each key
    key,           \* _active_key
    telling,       \* calls of _notify() under way, the innermost first: who is to be told
    told,          \* history: what each subscriber was last told
    switches,      \* changes of the active context so far
    base,          \* history: commands that fell off the undo stack
    tip,           \* history: the document after the last new entry
    spoiled        \* history: what the stacks cannot know has happened

historyVars == <<undo, redo, open, document, commands, base, tip, spoiled>>
managerVars == <<stacks, key, telling, told, switches>>
undoVars    == <<historyVars, managerVars>>

IsOpen(h)   == open[h] # NoContext
Spoil(h)    == spoiled' = spoiled \cup {h}
Keep        == UNCHANGED spoiled

-----------------------------------------------------------------------------
(* The history.                                                            *)

(* deque.append().                                                         *)
\* Mutant: no bound.
AppendedAlways(q, entry) == Append(q, entry)
Appended(q, entry) == IF Len(q) < UndoSize THEN Append(q, entry) ELSE Append(Tail(q), entry)
Dropped(h)         == IF Len(undo[h]) < UndoSize THEN base[h] ELSE base[h] \o Head(undo[h])

(* A new entry clears what could be redone.                                *)
(* Mutant: it does not.                                                    *)
RedoKept(h)    == redo
RedoCleared(h) == [redo EXCEPT ![h] = <<>>]

NewEntry(h, entry) ==
    /\ undo' = [undo EXCEPT ![h] = Appended(@, entry)]
    /\ base' = [base EXCEPT ![h] = Dropped(h)]
    /\ redo' = RedoCleared(h)
    /\ tip' = [tip EXCEPT ![h] = document'[h]]

(* push(); in a transaction the command is added, and executed; one that   *)
(* raises stays there.  Without execute the caller has made the change     *)
(* already -- or, in a transaction, leaves it to the end, as tx.add() does.*)
Push(h) ==
    /\ commands < MaxCommands
    /\ commands' = commands + 1
    /\ \E works \in BOOLEAN :
          LET c == commands + 1
              done == [document EXCEPT ![h] = IF works THEN Append(@, c) ELSE @]
          IN IF IsOpen(h)
             THEN /\ open' = [open EXCEPT ![h] = Append(@, c)]
                  /\ document' = done
                  /\ IF works THEN Keep ELSE Spoil(h)
                  /\ UNCHANGED <<undo, redo, base, tip>>
             ELSE /\ document' = done
                  /\ IF works THEN NewEntry(h, <<c>>) ELSE UNCHANGED <<undo, redo, base, tip>>
                  /\ UNCHANGED <<open, spoiled>>
    /\ UNCHANGED managerVars

(* undo(): an entry that raises is gone.  The document is what it was      *)
(* before the entry only if the entry came last.                           *)
Undo(h) ==
    /\ undo[h] # <<>>
    /\ LET entry == Last(undo[h]) IN
       /\ undo' = [undo EXCEPT ![h] = Front(@)]
       /\ \/ /\ document' = [document EXCEPT ![h] = Excluding(@, ToSet(entry))]
             /\ redo' = [redo EXCEPT ![h] = Append(@, entry)]
             /\ IF IsOpen(h) /\ open[h] # <<>> THEN Spoil(h) ELSE Keep
          \/ UNCHANGED <<document, redo>> /\ Spoil(h)
    /\ UNCHANGED <<open, commands, base, tip, managerVars>>

Redo(h) ==
    /\ redo[h] # <<>>
    /\ LET entry == Last(redo[h]) IN
       /\ redo' = [redo EXCEPT ![h] = Front(@)]
       /\ \/ /\ document' = [document EXCEPT ![h] = @ \o entry]
             /\ undo' = [undo EXCEPT ![h] = Appended(@, entry)]
             /\ base' = [base EXCEPT ![h] = Dropped(h)]
             /\ IF IsOpen(h) /\ open[h] # <<>> THEN Spoil(h) ELSE Keep
          \/ UNCHANGED <<document, undo, base>> /\ Spoil(h)
    /\ UNCHANGED <<open, commands, tip, managerVars>>

Begin(h) ==
    /\ ~IsOpen(h)
    /\ open' = [open EXCEPT ![h] = <<>>]
    /\ UNCHANGED <<undo, redo, document, commands, base, tip, spoiled, managerVars>>

(* end_transaction() executes nothing.                                     *)
End(h) ==
    /\ IsOpen(h)
    /\ open' = [open EXCEPT ![h] = NoContext]
    /\ UNCHANGED document
    /\ IF open[h] # <<>> THEN NewEntry(h, open[h]) ELSE UNCHANGED <<undo, redo, base, tip>>
    /\ UNCHANGED <<commands, spoiled, managerVars>>

(* abort_transaction() takes nothing back.                                 *)
Abort(h) ==
    /\ IsOpen(h)
    /\ open' = [open EXCEPT ![h] = NoContext]
    /\ IF open[h] # <<>> THEN Spoil(h) ELSE Keep
    /\ UNCHANGED <<undo, redo, document, commands, base, tip, managerVars>>

Clear(h) ==
    /\ undo[h] \o redo[h] # <<>>
    /\ undo' = [undo EXCEPT ![h] = <<>>] /\ redo' = [redo EXCEPT ![h] = <<>>]
    /\ open' = [open EXCEPT ![h] = NoContext]
    /\ base' = [base EXCEPT ![h] = document[h]] /\ tip' = [tip EXCEPT ![h] = document[h]]
    /\ spoiled' = spoiled \ {h}
    /\ UNCHANGED <<document, commands, managerVars>>

-----------------------------------------------------------------------------
(* The manager: a subscriber that is told may change the context again.    *)

(* _notify(), for a key that is not the active one already.                *)
Activate(k) ==
    /\ switches < MaxSwitches
    /\ switches' = switches + 1
    /\ key' = k
    /\ telling' = <<SetToSeq(Watchers)>> \o telling

SetActive(k) ==
    /\ k # key /\ (k # NoContext => stacks[k] # NoContext)
    /\ Activate(k)
    /\ UNCHANGED <<historyVars, stacks, told>>

RegisterStack(k, h) ==
    /\ stacks[k] # h
    /\ stacks' = [stacks EXCEPT ![k] = h]
    /\ \/ UNCHANGED <<key, telling, switches>>
       \/ k # key /\ Activate(k)
    /\ UNCHANGED <<historyVars, told>>

UnregisterStack(k) ==
    /\ stacks[k] # NoContext
    /\ stacks' = [stacks EXCEPT ![k] = NoContext]
    /\ IF k = key THEN Activate(NoContext) ELSE UNCHANGED <<key, telling, switches>>
    /\ UNCHANGED <<historyVars, told>>

(* A subscriber is told the key that is active when it is its turn.        *)
Tell ==
    /\ telling # <<>>
    /\ LET todo == Head(telling) IN
       IF todo = <<>> THEN telling' = Tail(telling) /\ UNCHANGED told
       ELSE /\ told' = [told EXCEPT ![Head(todo)] = key]
            /\ telling' = [telling EXCEPT ![1] = Tail(@)]
    /\ UNCHANGED <<historyVars, stacks, key, switches>>

UndoInit ==
    /\ undo = [h \in Histories |-> <<>>] /\ redo = undo /\ document = undo /\ base = undo
    /\ tip = undo
    /\ open = [h \in Histories |-> NoContext]
    /\ commands = 0 /\ switches = 0 /\ spoiled = {}
    /\ stacks = [k \in Contexts |-> NoContext] /\ key = NoContext
    /\ telling = <<>> /\ told = [w \in Watchers |-> NoContext]

HistoryNext ==
    \E h \in Histories :
        Push(h) \/ Begin(h) \/ End(h) \/ Abort(h) \/ Clear(h) \/ Undo(h) \/ Redo(h)

ContextNext ==
    \/ \E k \in Contexts \cup {NoContext} : SetActive(k)
    \/ \E k \in Contexts, h \in Histories : RegisterStack(k, h)
    \/ \E k \in Contexts : UnregisterStack(k)
    \/ Tell

(* The manager's undo() and redo() are those of the history it has for its *)
(* active key, which the program may also call itself.                     *)
UndoNext == HistoryNext \/ ContextNext

UndoSpec == UndoInit /\ [][UndoNext]_undoVars

-----------------------------------------------------------------------------
UndoTypeOK ==
    /\ \A h \in Histories : /\ Len(undo[h]) <= UndoSize
                            /\ Range(FlattenSeq(undo[h] \o redo[h])) \subseteq 1 .. commands
                            /\ document[h] \in Seq(1 .. commands)
    /\ stacks \in [Contexts -> Histories \cup {NoContext}]
    /\ key \in Contexts \cup {NoContext}
    /\ told \in [Watchers -> Contexts \cup {NoContext}]

Pending(h) == IF IsOpen(h) THEN open[h] ELSE <<>>

(* The undo stack says how the document came about, through commands,      *)
(* transactions, failures and entries that no longer fit; and what can be  *)
(* redone leads back to where the last new entry left it.                  *)
StacksKnowDocument ==
    \A h \in Histories \ spoiled :
        /\ document[h] = base[h] \o FlattenSeq(undo[h]) \o Pending(h)
        /\ Pending(h) = <<>> => document[h] \o FlattenSeq(Reverse(redo[h])) = tip[h]

(* The active context is one that is registered, and once everybody has    *)
(* been told, whatever they did when told, everybody knows it.             *)
ContextIsKnown ==
    /\ key # NoContext => stacks[key] # NoContext
    /\ telling = <<>> => \A w \in Watchers : told[w] = key

UndoSafe == StacksKnowDocument /\ ContextIsKnown

=============================================================================
