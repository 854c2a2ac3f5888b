-------------------------- MODULE OAuthFlowProofs --------------------------
(***************************************************************************)
(* Proofs about OAuthFlow, for any numbers of browsers, flows and          *)
(* callbacks handled at once, and any lifetime.                            *)
(*                                                                         *)
(* Neither property is inductive.  That a token goes to the browser that   *)
(* started the flow rests on what cookies and handlers carry: a cookie is  *)
(* a state of its own browser's (CookieInv), so a handler that passed the  *)
(* comparison works for the starter of its state (HandlerInv).  That there *)
(* is one token request per state rests on the state cache: a state that   *)
(* was exchanged is no longer stored, and is never stored again because    *)
(* only a state with no starter is (StoreInv).                             *)
(***************************************************************************)
EXTENDS OAuthFlow, TLAPS

CookieInv == \A b \in Browser : cookie[b] # None => starter[cookie[b]] = b

HandlerInv ==
    \A h \in Handler :
        /\ state[h] # None => from[h] \in Browser /\ starter[state[h]] = from[h]
        /\ pc[h] # "idle" => state[h] # None

StoreInv ==
    \A s \in State :
        /\ s \in DOMAIN stateCache => exchanges[s] = 0 /\ starter[s] # None
        /\ exchanges[s] # 0 => starter[s] # None

Inv ==
    /\ TypeOK
    /\ CookieInv
    /\ HandlerInv
    /\ StoreInv
    /\ OneExchangePerState
    /\ TokenToTheStarter

-----------------------------------------------------------------------------
(* Init establishes the invariant. *)
LEMMA InitInv == Init => Inv
BY FlowAssumption
   DEF Init, Inv, TypeOK, NoSweep, CookieInv, HandlerInv, StoreInv,
       OneExchangePerState, TokenToTheStarter

(* Every step keeps the types; a token is recorded for a browser because a
   handler that exchanges has one (HandlerInv). *)
LEMMA NextTypeOK == Inv /\ [Next]_vars => TypeOK'
<1> SUFFICES ASSUME Inv, [Next]_vars
             PROVE  TypeOK'
  OBVIOUS
<1> USE FlowAssumption DEF Inv, TypeOK, HandlerInv, NoSweep, handler, history
<1>1. ASSUME NEW b \in Browser, NEW s \in State, Start(b, s)
      PROVE  TypeOK'
  BY <1>1 DEF Start
<1>2. ASSUME NEW s \in State, Authorize(s)
      PROVE  TypeOK'
  BY <1>2 DEF Authorize
<1>3. ASSUME NEW b \in Browser, LoseCookie(b)
      PROVE  TypeOK'
  BY <1>3 DEF LoseCookie
<1>4. ASSUME NEW h \in Handler, NEW b \in Browser, NEW s \in State, Receive(h, b, s)
      PROVE  TypeOK'
  BY <1>4 DEF Receive
<1>5. ASSUME NEW h \in Handler, NEW g \in Handler, ReceiveCopy(h, g)
      PROVE  TypeOK'
  BY <1>5 DEF ReceiveCopy
<1>6. ASSUME NEW h \in Handler, Consume(h)
      PROVE  TypeOK'
  BY <1>6 DEF Consume, Forgetting
<1>7. ASSUME NEW h \in Handler, Refuse(h)
      PROVE  TypeOK'
  BY <1>7 DEF Refuse, Forgetting
<1>8. ASSUME NEW h \in Handler, Exchanged(h)
      PROVE  TypeOK'
  BY <1>8 DEF Exchanged
<1>9. ASSUME NEW h \in Handler, ExchangeFails(h)
      PROVE  TypeOK'
  BY <1>9 DEF ExchangeFails
<1>10. CASE StartSweep
  BY <1>10 DEF StartSweep
<1>11. CASE Sweep
  BY <1>11 DEF Sweep, Forgetting
<1>12. CASE Tick
  BY <1>12 DEF Tick
<1>13. CASE UNCHANGED vars
  BY <1>13 DEF vars
<1>14. QED
  BY <1>1, <1>2, <1>3, <1>4, <1>5, <1>6, <1>7, <1>8, <1>9, <1>10, <1>11,
     <1>12, <1>13 DEF Next

(* Every step keeps each cookie its own browser's: only HandleAuthStart sets
   a cookie, and it sets the state it has just created for that browser. *)
LEMMA NextCookieInv == Inv /\ [Next]_vars => CookieInv'
<1> SUFFICES ASSUME Inv, [Next]_vars
             PROVE  CookieInv'
  OBVIOUS
<1> USE FlowAssumption DEF Inv, TypeOK, CookieInv, NoSweep, handler, history
<1>1. ASSUME NEW b \in Browser, NEW s \in State, Start(b, s)
      PROVE  CookieInv'
  BY <1>1 DEF Start
<1>2. ASSUME NEW s \in State, Authorize(s)
      PROVE  CookieInv'
  BY <1>2 DEF Authorize
<1>3. ASSUME NEW b \in Browser, LoseCookie(b)
      PROVE  CookieInv'
  BY <1>3 DEF LoseCookie
<1>4. ASSUME NEW h \in Handler, NEW b \in Browser, NEW s \in State, Receive(h, b, s)
      PROVE  CookieInv'
  BY <1>4 DEF Receive
<1>5. ASSUME NEW h \in Handler, NEW g \in Handler, ReceiveCopy(h, g)
      PROVE  CookieInv'
  BY <1>5 DEF ReceiveCopy
<1>6. ASSUME NEW h \in Handler, Consume(h)
      PROVE  CookieInv'
  BY <1>6 DEF Consume, Forgetting
<1>7. ASSUME NEW h \in Handler, Refuse(h)
      PROVE  CookieInv'
  BY <1>7 DEF Refuse, Forgetting
<1>8. ASSUME NEW h \in Handler, Exchanged(h)
      PROVE  CookieInv'
  BY <1>8 DEF Exchanged
<1>9. ASSUME NEW h \in Handler, ExchangeFails(h)
      PROVE  CookieInv'
  BY <1>9 DEF ExchangeFails
<1>10. CASE StartSweep
  BY <1>10 DEF StartSweep
<1>11. CASE Sweep
  BY <1>11 DEF Sweep, Forgetting
<1>12. CASE Tick
  BY <1>12 DEF Tick
<1>13. CASE UNCHANGED vars
  BY <1>13 DEF vars
<1>14. QED
  BY <1>1, <1>2, <1>3, <1>4, <1>5, <1>6, <1>7, <1>8, <1>9, <1>10, <1>11,
     <1>12, <1>13 DEF Next

(* Every step keeps each handler at work for the starter of its state: Receive
   by the cookie comparison, a copy because it copies such a handler. *)
LEMMA NextHandlerInv == Inv /\ [Next]_vars => HandlerInv'
<1> SUFFICES ASSUME Inv, [Next]_vars
             PROVE  HandlerInv'
  OBVIOUS
<1> USE FlowAssumption DEF Inv, TypeOK, CookieInv, HandlerInv, NoSweep, handler, history
<1>1. ASSUME NEW b \in Browser, NEW s \in State, Start(b, s)
      PROVE  HandlerInv'
  BY <1>1 DEF Start
<1>2. ASSUME NEW s \in State, Authorize(s)
      PROVE  HandlerInv'
  BY <1>2 DEF Authorize
<1>3. ASSUME NEW b \in Browser, LoseCookie(b)
      PROVE  HandlerInv'
  BY <1>3 DEF LoseCookie
<1>4. ASSUME NEW h \in Handler, NEW b \in Browser, NEW s \in State, Receive(h, b, s)
      PROVE  HandlerInv'
  BY <1>4 DEF Receive
<1>5. ASSUME NEW h \in Handler, NEW g \in Handler, ReceiveCopy(h, g)
      PROVE  HandlerInv'
  BY <1>5 DEF ReceiveCopy
<1>6. ASSUME NEW h \in Handler, Consume(h)
      PROVE  HandlerInv'
  BY <1>6 DEF Consume, Forgetting
<1>7. ASSUME NEW h \in Handler, Refuse(h)
      PROVE  HandlerInv'
  BY <1>7 DEF Refuse, Forgetting
<1>8. ASSUME NEW h \in Handler, Exchanged(h)
      PROVE  HandlerInv'
  BY <1>8 DEF Exchanged
<1>9. ASSUME NEW h \in Handler, ExchangeFails(h)
      PROVE  HandlerInv'
  BY <1>9 DEF ExchangeFails
<1>10. CASE StartSweep
  BY <1>10 DEF StartSweep
<1>11. CASE Sweep
  BY <1>11 DEF Sweep, Forgetting
<1>12. CASE Tick
  BY <1>12 DEF Tick
<1>13. CASE UNCHANGED vars
  BY <1>13 DEF vars
<1>14. QED
  BY <1>1, <1>2, <1>3, <1>4, <1>5, <1>6, <1>7, <1>8, <1>9, <1>10, <1>11,
     <1>12, <1>13 DEF Next

(* Every step keeps exchanged states out of the state cache. *)
LEMMA NextStoreInv == Inv /\ [Next]_vars => StoreInv'
<1> SUFFICES ASSUME Inv, [Next]_vars
             PROVE  StoreInv'
  OBVIOUS
<1> USE FlowAssumption DEF Inv, TypeOK, HandlerInv, StoreInv, OneExchangePerState, NoSweep, handler, history
<1>1. ASSUME NEW b \in Browser, NEW s \in State, Start(b, s)
      PROVE  StoreInv'
  BY <1>1 DEF Start
<1>2. ASSUME NEW s \in State, Authorize(s)
      PROVE  StoreInv'
  BY <1>2 DEF Authorize
<1>3. ASSUME NEW b \in Browser, LoseCookie(b)
      PROVE  StoreInv'
  BY <1>3 DEF LoseCookie
<1>4. ASSUME NEW h \in Handler, NEW b \in Browser, NEW s \in State, Receive(h, b, s)
      PROVE  StoreInv'
  BY <1>4 DEF Receive
<1>5. ASSUME NEW h \in Handler, NEW g \in Handler, ReceiveCopy(h, g)
      PROVE  StoreInv'
  BY <1>5 DEF ReceiveCopy
<1>6. ASSUME NEW h \in Handler, Consume(h)
      PROVE  StoreInv'
  BY <1>6 DEF Consume, Forgetting
<1>7. ASSUME NEW h \in Handler, Refuse(h)
      PROVE  StoreInv'
  BY <1>7 DEF Refuse, Forgetting
<1>8. ASSUME NEW h \in Handler, Exchanged(h)
      PROVE  StoreInv'
  BY <1>8 DEF Exchanged
<1>9. ASSUME NEW h \in Handler, ExchangeFails(h)
      PROVE  StoreInv'
  BY <1>9 DEF ExchangeFails
<1>10. CASE StartSweep
  BY <1>10 DEF StartSweep
<1>11. CASE Sweep
  BY <1>11 DEF Sweep, Forgetting
<1>12. CASE Tick
  BY <1>12 DEF Tick
<1>13. CASE UNCHANGED vars
  BY <1>13 DEF vars
<1>14. QED
  BY <1>1, <1>2, <1>3, <1>4, <1>5, <1>6, <1>7, <1>8, <1>9, <1>10, <1>11,
     <1>12, <1>13 DEF Next

(* Every step keeps the token requests of a state at one: Consume counts a
   state it finds stored, which was never exchanged (StoreInv). *)
LEMMA NextOneExchange == Inv /\ [Next]_vars => OneExchangePerState'
<1> SUFFICES ASSUME Inv, [Next]_vars
             PROVE  OneExchangePerState'
  OBVIOUS
<1> USE FlowAssumption DEF Inv, TypeOK, HandlerInv, StoreInv, OneExchangePerState, NoSweep, handler, history
<1>1. ASSUME NEW b \in Browser, NEW s \in State, Start(b, s)
      PROVE  OneExchangePerState'
  BY <1>1 DEF Start
<1>2. ASSUME NEW s \in State, Authorize(s)
      PROVE  OneExchangePerState'
  BY <1>2 DEF Authorize
<1>3. ASSUME NEW b \in Browser, LoseCookie(b)
      PROVE  OneExchangePerState'
  BY <1>3 DEF LoseCookie
<1>4. ASSUME NEW h \in Handler, NEW b \in Browser, NEW s \in State, Receive(h, b, s)
      PROVE  OneExchangePerState'
  BY <1>4 DEF Receive
<1>5. ASSUME NEW h \in Handler, NEW g \in Handler, ReceiveCopy(h, g)
      PROVE  OneExchangePerState'
  BY <1>5 DEF ReceiveCopy
<1>6. ASSUME NEW h \in Handler, Consume(h)
      PROVE  OneExchangePerState'
  BY <1>6 DEF Consume, Forgetting
<1>7. ASSUME NEW h \in Handler, Refuse(h)
      PROVE  OneExchangePerState'
  BY <1>7 DEF Refuse, Forgetting
<1>8. ASSUME NEW h \in Handler, Exchanged(h)
      PROVE  OneExchangePerState'
  BY <1>8 DEF Exchanged
<1>9. ASSUME NEW h \in Handler, ExchangeFails(h)
      PROVE  OneExchangePerState'
  BY <1>9 DEF ExchangeFails
<1>10. CASE StartSweep
  BY <1>10 DEF StartSweep
<1>11. CASE Sweep
  BY <1>11 DEF Sweep, Forgetting
<1>12. CASE Tick
  BY <1>12 DEF Tick
<1>13. CASE UNCHANGED vars
  BY <1>13 DEF vars
<1>14. QED
  BY <1>1, <1>2, <1>3, <1>4, <1>5, <1>6, <1>7, <1>8, <1>9, <1>10, <1>11,
     <1>12, <1>13 DEF Next

(* Every step hands a token to the browser its handler works for. *)
LEMMA NextTokenToTheStarter == Inv /\ [Next]_vars => TokenToTheStarter'
<1> SUFFICES ASSUME Inv, [Next]_vars
             PROVE  TokenToTheStarter'
  OBVIOUS
<1> USE FlowAssumption DEF Inv, TypeOK, HandlerInv, TokenToTheStarter, NoSweep, handler, history
<1>1. ASSUME NEW b \in Browser, NEW s \in State, Start(b, s)
      PROVE  TokenToTheStarter'
  BY <1>1 DEF Start
<1>2. ASSUME NEW s \in State, Authorize(s)
      PROVE  TokenToTheStarter'
  BY <1>2 DEF Authorize
<1>3. ASSUME NEW b \in Browser, LoseCookie(b)
      PROVE  TokenToTheStarter'
  BY <1>3 DEF LoseCookie
<1>4. ASSUME NEW h \in Handler, NEW b \in Browser, NEW s \in State, Receive(h, b, s)
      PROVE  TokenToTheStarter'
  BY <1>4 DEF Receive
<1>5. ASSUME NEW h \in Handler, NEW g \in Handler, ReceiveCopy(h, g)
      PROVE  TokenToTheStarter'
  BY <1>5 DEF ReceiveCopy
<1>6. ASSUME NEW h \in Handler, Consume(h)
      PROVE  TokenToTheStarter'
  BY <1>6 DEF Consume, Forgetting
<1>7. ASSUME NEW h \in Handler, Refuse(h)
      PROVE  TokenToTheStarter'
  BY <1>7 DEF Refuse, Forgetting
<1>8. ASSUME NEW h \in Handler, Exchanged(h)
      PROVE  TokenToTheStarter'
  BY <1>8 DEF Exchanged
<1>9. ASSUME NEW h \in Handler, ExchangeFails(h)
      PROVE  TokenToTheStarter'
  BY <1>9 DEF ExchangeFails
<1>10. CASE StartSweep
  BY <1>10 DEF StartSweep
<1>11. CASE Sweep
  BY <1>11 DEF Sweep, Forgetting
<1>12. CASE Tick
  BY <1>12 DEF Tick
<1>13. CASE UNCHANGED vars
  BY <1>13 DEF vars
<1>14. QED
  BY <1>1, <1>2, <1>3, <1>4, <1>5, <1>6, <1>7, <1>8, <1>9, <1>10, <1>11,
     <1>12, <1>13 DEF Next

-----------------------------------------------------------------------------
(* The invariant holds in every reachable state. *)
LEMMA Invariance == Spec => []Inv
<1>1. Inv /\ [Next]_vars => Inv'
  BY NextTypeOK, NextCookieInv, NextHandlerInv, NextStoreInv, NextOneExchange,
     NextTokenToTheStarter DEF Inv
<1>2. QED
  BY InitInv, <1>1, PTL DEF Spec

(* Type correctness: every variable of the flow keeps its type, no stored  *)
(* creation time lies in the future, and every token went to a browser.    *)
THEOREM TypeCorrect == Spec => []TypeOK
BY Invariance, PTL DEF Inv

(* The state and the verifier of a flow are used for one token request at  *)
(* most, however many copies of the callback HandleCallback serves at once.*)
THEOREM OneTimeUse == Spec => []OneExchangePerState
BY Invariance, PTL DEF Inv

(* HandleCallback hands a token only to the browser whose HandleAuthStart  *)
(* created the state.                                                      *)
THEOREM OnlyTheStarterCompletes == Spec => []TokenToTheStarter
BY Invariance, PTL DEF Inv

(* runCleanup never removes a state within its lifetime, whenever it read  *)
(* the clock: only the callback that exchanges the state does.             *)
THEOREM NeverForgottenEarly == Spec => KeptForItsLifetime
<1>1. Inv /\ [Next]_vars => [ForgetsOnlyUsedOrOld]_vars
  <2> SUFFICES ASSUME Inv, Next, NEW s \in DOMAIN stateCache \ DOMAIN stateCache'
               PROVE  \/ now - stateCache[s] > Lifetime
                      \/ \E h \in Handler : /\ state[h] = s
                                           /\ pc[h] = "matched"
                                           /\ pc'[h] = "exchanging"
    BY DEF ForgetsOnlyUsedOrOld
  <2> USE FlowAssumption DEF Inv, TypeOK, NoSweep
  <2>1. ASSUME NEW h \in Handler, Consume(h)
        PROVE  state[h] = s /\ pc[h] = "matched" /\ pc'[h] = "exchanging"
    BY <2>1 DEF Consume, Forgetting
  <2>2. ASSUME NEW h \in Handler, Refuse(h)
        PROVE  now - stateCache[s] > Lifetime
    BY <2>2 DEF Refuse, Forgetting
  <2>3. CASE Sweep
    BY <2>3 DEF Sweep, Forgetting
  <2>4. CASE stateCache' = stateCache
    BY <2>4
  <2>5. ASSUME NEW b \in Browser, NEW x \in State, Start(b, x)
        PROVE  FALSE
    BY <2>5 DEF Start
  <2>6. QED
    BY <2>1, <2>2, <2>3, <2>4, <2>5
       DEF Next, Authorize, LoseCookie, Receive, ReceiveCopy, Exchanged,
           ExchangeFails, StartSweep, Tick
<1>2. QED
  BY Invariance, <1>1, PTL DEF Spec, KeptForItsLifetime
=============================================================================
