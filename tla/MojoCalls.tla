------------------------------- MODULE MojoCalls -------------------------------
(***************************************************************************)
(* Three demos of calls between two processes: the mojo bindings of        *)
(* demo_mojo_multiple_process_binding.cc, the two services of              *)
(* demo_services.cc and the IPC channel of demo_ipc.cc.  `demo` is the     *)
(* one that runs.                                                          *)
(*                                                                         *)
(* A process first runs main up to its run loop, its script, and then      *)
(* dispatches messages; a method of an implementation that does anything   *)
(* but log is a list of steps as well.  Steps make calls, bind             *)
(* implementations and close pipes.  Calls wait in their pipe until the    *)
(* implementation they are for is bound, keep their order in a pipe and    *)
(* none between pipes, and survive the closing of the end they came from.  *)
(*                                                                         *)
(* A definition whose name starts with Faulty is a plausible mistake in    *)
(* the definition that follows it; the properties are tried against it.    *)
(***************************************************************************)
EXTENDS Sequences

VARIABLES
  demo,     \* "binding", "services", "ipc", or another one
  todo,     \* for each process, the steps left of its main or of the method it runs
  inbox,    \* for each process and pipe, the calls that wait there
  serving,  \* for each process, the implementations it has bound or registered
  open,     \* for each process, the pipes whose end it has not closed
  ran       \* the methods that have run

callVars == <<demo, todo, inbox, serving, open, ran>>

CallDemos == {"binding", "services", "ipc"}
Processes == {"parent", "child"}

Call(to, pipe, method) == [do |-> "call", to |-> to, pipe |-> pipe, what |-> method]
Bind(impl)  == [do |-> "bind", to |-> "self", pipe |-> "none", what |-> impl]
Close(pipe) == [do |-> "close", to |-> "self", pipe |-> pipe, what |-> "none"]

-----------------------------------------------------------------------------
(***************************************************************************)
(* The binding demo.  MojoProducer is the parent.  A Remote on its stack   *)
(* closes its pipe at the end of its block; one it leaks stays open.       *)
(***************************************************************************)
TestBlock ==
  << Call("child", "test", "TestHello"),
     Bind("HiCallback"), Call("child", "test", "TestHi") >>

Test2Block == << Call("child", "test2", "SendMessagePipeHandle"), Close("test2") >>

Test3Block ==
  << Call("child", "test3", "Test3GetApi"), Call("child", "api", "PrintApi"),
     Bind("Api2Impl"), Call("child", "test3", "Test3SetApi2"),
     Close("api"), Close("test3") >>

\* Faulty: Api gets a pipe of its own, as in Test3Block.
FaultyTest32Block ==
  << Call("child", "test32", "Test32GetApi"), Call("child", "api", "AssociatedPrintApi"),
     Bind("AssociatedApi2Impl"), Call("child", "test32", "Test32SetApi2") >>

\* Faulty: the Remote is on the stack.
FaultyTest32BlockCloses ==
  << Call("child", "test32", "Test32GetApi"), Call("child", "test32", "AssociatedPrintApi"),
     Bind("AssociatedApi2Impl"), Call("child", "test32", "Test32SetApi2"),
     Close("test32") >>

\* The associated interfaces share the pipe of Test32.
Test32Block ==
  << Call("child", "test32", "Test32GetApi"), Call("child", "test32", "AssociatedPrintApi"),
     Bind("AssociatedApi2Impl"), Call("child", "test32", "Test32SetApi2") >>

BrokerBlock ==
  << Call("child", "broker", "GetInterface1"), Call("child", "interface1", "Interface1Hello"),
     Call("child", "broker", "GetInterface2"), Call("child", "interface2", "Interface2Hi"),
     Close("interface2"), Close("interface1"), Close("broker") >>

BindingProducer == TestBlock \o Test2Block \o Test3Block \o Test32Block \o BrokerBlock

\* The broker is bound before its map is filled.
BindingConsumer ==
  << Bind("TestImpl"), Bind("Test2Impl"), Bind("Test3Impl"), Bind("Test32Impl"),
     Bind("InterfaceBrokerImpl"), Bind("Interface1"), Bind("Interface2") >>

TestImplHi == << Call("parent", "test", "HiCallback") >>

Test3ImplGetApi  == << Bind("ApiImpl") >>
Test3ImplSetApi2 == << Call("parent", "api2", "PrintApi2") >>

Test32ImplGetApi  == << Bind("AssociatedApiImpl") >>
Test32ImplSetApi2 == << Call("parent", "test32", "AssociatedPrintApi2") >>

GetInterface(impl) == << Bind(impl) >>

-----------------------------------------------------------------------------
(***************************************************************************)
(* The services.  The parent hosts the ServiceManager and, on the same     *)
(* thread, the ConsumerService; the child is the process of the            *)
(* TestService.  Either service greets the other one when it starts.       *)
(***************************************************************************)
RunEmbedderProcess ==
  << Bind("ServiceManager"), Call("child", "service", "TestServiceOnStart") >>

CreateEmbeddedService == << Bind("TestService") >>

TestServiceOnStart ==
  << Call("parent", "test_connector", "BindRootInterface"), Call("parent", "root", "RootHi"),
     Close("root") >>

\* The manager starts the service that was asked for, in its own process, first.
BindRootInterface ==
  << Bind("ConsumerService"), Call("parent", "consumer", "ConsumerServiceOnStart"),
     Call("parent", "consumer", "ConsumerServiceOnBindInterface") >>

ConsumerServiceOnStart ==
  << Call("parent", "consumer_connector", "BindTestInterface"),
     Call("child", "test", "ServiceHello"), Close("test") >>

ConsumerServiceOnBindInterface == << Bind("RootInterfaceImpl") >>

BindTestInterface == << Call("child", "service", "TestServiceOnBindInterface") >>

TestServiceOnBindInterface == << Bind("TestInterfaceImpl") >>

-----------------------------------------------------------------------------
(***************************************************************************)
(* The IPC channel.  The consumer's channel gives control messages to      *)
(* itself and the others to the route of its filter, if there is one.      *)
(***************************************************************************)
IpcProducer ==
  << Bind("ProducerListener"), Call("child", "ipc", "Hello"),
     Call("child", "ipc", "RoutedHello") >>

\* The channel is its own listener; the filter's route 1 is the other one.
ConsumerChannelInit == << Bind("ConsumerChannel"), Bind("ConsumerListener") >>

IpcConsumer == ConsumerChannelInit \o << Call("parent", "ipc", "Hi") >>

-----------------------------------------------------------------------------
Script ==
  [binding  |-> [parent |-> BindingProducer, child |-> BindingConsumer],
   services |-> [parent |-> RunEmbedderProcess, child |-> CreateEmbeddedService],
   ipc      |-> [parent |-> IpcProducer, child |-> IpcConsumer]]

\* The implementation each method belongs to.
BindingImpl ==
  [TestHello |-> "TestImpl", TestHi |-> "TestImpl", HiCallback |-> "HiCallback",
   SendMessagePipeHandle |-> "Test2Impl",
   Test3GetApi |-> "Test3Impl", Test3SetApi2 |-> "Test3Impl",
   PrintApi |-> "ApiImpl", PrintApi2 |-> "Api2Impl",
   Test32GetApi |-> "Test32Impl", Test32SetApi2 |-> "Test32Impl",
   AssociatedPrintApi |-> "AssociatedApiImpl", AssociatedPrintApi2 |-> "AssociatedApi2Impl",
   GetInterface1 |-> "InterfaceBrokerImpl", GetInterface2 |-> "InterfaceBrokerImpl",
   Interface1Hello |-> "Interface1Impl", Interface2Hi |-> "Interface2Impl"]

ServicesImpl ==
  [TestServiceOnStart |-> "TestService", TestServiceOnBindInterface |-> "TestService",
   BindRootInterface |-> "ServiceManager", BindTestInterface |-> "ServiceManager",
   ConsumerServiceOnStart |-> "ConsumerService",
   ConsumerServiceOnBindInterface |-> "ConsumerService",
   RootHi |-> "RootInterfaceImpl", ServiceHello |-> "TestInterfaceImpl"]

IpcImpl ==
  [Hello |-> "ConsumerChannel", RoutedHello |-> "ConsumerChannel", Hi |-> "ProducerListener"]

Impl == [binding |-> BindingImpl, services |-> ServicesImpl, ipc |-> IpcImpl]

\* What the methods do that do more than log.
Handler ==
  [TestHi |-> TestImplHi,
   Test3GetApi |-> Test3ImplGetApi, Test3SetApi2 |-> Test3ImplSetApi2,
   Test32GetApi |-> Test32ImplGetApi, Test32SetApi2 |-> Test32ImplSetApi2,
   GetInterface1 |-> GetInterface("Interface1Impl"),
   GetInterface2 |-> GetInterface("Interface2Impl"),
   TestServiceOnStart |-> TestServiceOnStart, BindRootInterface |-> BindRootInterface,
   ConsumerServiceOnStart |-> ConsumerServiceOnStart,
   ConsumerServiceOnBindInterface |-> ConsumerServiceOnBindInterface,
   BindTestInterface |-> BindTestInterface,
   TestServiceOnBindInterface |-> TestServiceOnBindInterface]

Steps(method) == IF method \in DOMAIN Handler THEN Handler[method] ELSE <<>>

\* What a method looks up by name, in the broker's map or the filter's routes.
LooksUp == [GetInterface1 |-> "Interface1", GetInterface2 |-> "Interface2",
            RoutedHello |-> "ConsumerListener"]

Finds(p, method) == method \in DOMAIN LooksUp => LooksUp[method] \in serving[p]

Pipes ==
  {"test", "test2", "test3", "test32", "broker", "api", "api2", "interface1", "interface2",
   "service", "consumer", "test_connector", "consumer_connector", "root", "ipc"}

CallsInit ==
  /\ todo = [p \in Processes |-> IF demo \in CallDemos THEN Script[demo][p] ELSE <<>>]
  /\ inbox = [p \in Processes |-> [pipe \in Pipes |-> <<>>]]
  /\ serving = [p \in Processes |-> {}]
  /\ open = [p \in Processes |-> Pipes]
  /\ ran = {}

\* The steps of process p, each one the first of those it has left.
BindStep(p, step) ==
  /\ step.do = "bind"
  /\ serving' = [serving EXCEPT ![p] = @ \cup {step.what}]
  /\ UNCHANGED <<inbox, open>>

CloseStep(p, step) ==
  /\ step.do = "close"
  /\ open' = [open EXCEPT ![p] = @ \ {step.pipe}]
  /\ inbox' = [inbox EXCEPT ![p][step.pipe] = <<>>]
  /\ UNCHANGED serving

\* A call to a closed end is lost.
CallStep(step) ==
  /\ step.do = "call"
  /\ inbox' = IF step.pipe \in open[step.to]
                THEN [inbox EXCEPT ![step.to][step.pipe] = Append(@, step.what)]
                ELSE inbox
  /\ UNCHANGED <<serving, open>>

Step(p) ==
  /\ todo[p] # <<>>
  /\ todo' = [todo EXCEPT ![p] = Tail(@)]
  /\ LET step == Head(todo[p])
     IN  BindStep(p, step) \/ CloseStep(p, step) \/ CallStep(step)
  /\ UNCHANGED <<demo, ran>>

\* Process p, in its run loop, may take a call from a pipe.
Ready(p, pipe) ==
  /\ todo[p] = <<>>
  /\ inbox[p][pipe] # <<>>
  /\ Impl[demo][Head(inbox[p][pipe])] \in serving[p]

\* A call that does not find what it looks up (an empty callback is run, or no route
\* takes the message) is gone and has not run.
Dispatch(p, pipe) ==
  /\ Ready(p, pipe)
  /\ LET method == Head(inbox[p][pipe])
     IN  IF Finds(p, method)
         THEN /\ ran' = ran \cup {method}
              /\ todo' = [todo EXCEPT ![p] = Steps(method)]
         ELSE UNCHANGED <<ran, todo>>
  /\ inbox' = [inbox EXCEPT ![p][pipe] = Tail(@)]
  /\ UNCHANGED <<demo, serving, open>>

CallsNext ==
  \E p \in Processes : Step(p) \/ \E pipe \in Pipes : Dispatch(p, pipe)

\* Both processes go on as long as they can.
CallsFairness ==
  \A p \in Processes :
    WF_callVars(Step(p)) /\ WF_callVars(\E pipe \in Pipes : Dispatch(p, pipe))

-----------------------------------------------------------------------------
(***************************************************************************)
(* Properties.                                                             *)
(***************************************************************************)

Methods == DOMAIN BindingImpl \cup DOMAIN ServicesImpl \cup DOMAIN IpcImpl

\* What is bound: an implementation, or an entry of the broker's map or of the routes.
Implementations ==
  {"TestImpl", "Test2Impl", "Test3Impl", "ApiImpl", "Api2Impl", "Test32Impl",
   "AssociatedApiImpl", "AssociatedApi2Impl", "HiCallback", "InterfaceBrokerImpl",
   "Interface1Impl", "Interface2Impl", "Interface1", "Interface2",
   "ServiceManager", "TestService", "ConsumerService", "RootInterfaceImpl",
   "TestInterfaceImpl", "ProducerListener", "ConsumerChannel", "ConsumerListener"}

StepRecords ==
  [do : {"call"}, to : Processes, pipe : Pipes, what : Methods]
    \cup [do : {"bind"}, to : {"self"}, pipe : {"none"}, what : Implementations]
    \cup [do : {"close"}, to : {"self"}, pipe : Pipes, what : {"none"}]

\* Every variable keeps to its range.
CallsTypeOK ==
  /\ todo \in [Processes -> Seq(StepRecords)]
  /\ inbox \in [Processes -> [Pipes -> Seq(Methods)]]
  /\ serving \in [Processes -> SUBSET Implementations]
  /\ open \in [Processes -> SUBSET Pipes]
  /\ ran \subseteq Methods

\* Calls of associated interfaces run in the order they were made, whatever the
\* run loops do (the comment at line 296): PrintApi, which waits for GetApi to
\* bind its implementation, still comes before SetApi2.  Every variable keeps to
\* its range.
AssociatedCallsKeepOrder ==
  /\ CallsTypeOK
  /\ "Test32SetApi2" \in ran => {"Test32GetApi", "AssociatedPrintApi"} \subseteq ran

\* Every call arrives and runs, the replies and the calls back included, although
\* the caller closes most pipes at once and may be far ahead of the other process.
\* A call that comes after its caller has gone on, or closed the other pipes it has,
\* still finds the pipe and the implementation it is for.
EveryCallRuns == \A d \in CallDemos : demo = d => <>(ran = DOMAIN Impl[d])
===============================================================================
