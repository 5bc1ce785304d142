----------------------------- MODULE MCServices -----------------------------
(***************************************************************************)
(* The five components that share no variable with another one, for TLC:   *)
(* a behaviour is a behaviour of one of them, chosen at the start, and the *)
(* others stay as they begin.                                              *)
(***************************************************************************)
EXTENDS ConfigFile, RealData, DiPoll, Smtp, Modem

MCPages == {<<0, 0>>, <<1, 1>>}
MCLevels == {<<1, 2>>, <<0, 1>>, <<1, 0>>}
MCOffers == {{}, {"AUTH", "LOGIN"}, {"STARTTLS", "AUTH", "PLAIN"}}

VARIABLES service      \* which of them runs

vars == <<service, configVars, dataVars, diVars, smtpVars, modemVars>>

Init ==
    /\ service \in {"config", "data", "di", "mail", "sms"}
    /\ ConfigInit /\ DataInit /\ DiInit /\ SmtpInit /\ ModemInit
    /\ service # "di" => di_cfg = <<1, 2>> /\ ~missed /\ ~di_alarm_flag
    /\ service # "mail" => security = "NO_SECURITY" /\ offers = {}

NotConfig == UNCHANGED <<service, dataVars, diVars, smtpVars, modemVars>>
NotData   == UNCHANGED <<service, configVars, diVars, smtpVars, modemVars>>
NotDi     == UNCHANGED <<service, configVars, dataVars, smtpVars, modemVars>>
NotMail   == UNCHANGED <<service, configVars, dataVars, diVars, modemVars>>
NotSms    == UNCHANGED <<service, configVars, dataVars, diVars, smtpVars>>

Next == \/ service = "config" /\ ConfigNext /\ NotConfig
        \/ service = "data"   /\ DataNext   /\ NotData
        \/ service = "di"     /\ DiNext     /\ NotDi
        \/ service = "mail"   /\ SmtpNext   /\ NotMail
        \/ service = "sms"    /\ ModemNext  /\ NotSms

\* The fairness of each component, when it is the one that runs.
Run(who, A) == service = who /\ A
Fairness ==
    /\ WF_configVars(Run("config", Main)) /\ WF_configVars(Run("config", Thread))
    /\ \A r \in Requests : WF_configVars(Run("config", Request(r)))
    /\ \A p \in {"di", "beep"} \cup Queries : /\ WF_dataVars(Run("data", Share(p)))
                                            /\ SF_dataVars(Run("data", semaphore_p(p)))
    /\ WF_dataVars(Run("data", Poll)) /\ WF_dataVars(Run("data", Beep))
    /\ WF_smtpVars(Run("mail", Client)) /\ WF_smtpVars(Run("mail", Reply))
Spec == Init /\ [][Next]_vars /\ Fairness

----------------------------------------------------------------------------
\* The type invariants of the components.
TypeOK == ConfigTypeOK /\ DataTypeOK /\ DiTypeOK /\ SmtpTypeOK /\ ModemTypeOK

\* A mail ends (MailIsOver of Smtp), when it is the mail that runs.
MailEnds == service = "mail" => MailIsOver
=============================================================================
