-------------------------------- MODULE Record --------------------------------
(* The parts of the system that share no state with one another, side by     *)
(* side: each behaviour is one of the part it picks at the start.            *)
EXTENDS Files, Desk, MailCheck, Dump, Import, Newsroom, Follows, Compass, Offices, Elections,
        Captcha

CONSTANT Parts   \* the parts to look at

VARIABLE part

recordVars == <<part, filesVars, deskVars, mailCheckVars, dumpVars, newsroomVars, followsVars,
                compassVars, importVars, officesVars, electionsVars, captchaVars>>

-----------------------------------------------------------------------------
RecordInit ==
    /\ part \in Parts
    /\ FilesInit /\ DeskInit /\ MailCheckInit /\ DumpInit /\ NewsroomInit /\ FollowsInit
    /\ CompassInit /\ ImportInit /\ OfficesInit /\ ElectionsInit /\ CaptchaInit
    /\ part # "mail" => resolver

RecordNext ==
    /\ UNCHANGED part
    /\ \/ /\ part = "files" /\ FilesNext
          /\ UNCHANGED <<deskVars, mailCheckVars, dumpVars, newsroomVars, followsVars,
                         compassVars, importVars, officesVars, electionsVars, captchaVars>>
       \/ /\ part = "desk" /\ DeskNext
          /\ UNCHANGED <<filesVars, mailCheckVars, dumpVars, newsroomVars, followsVars,
                         compassVars, importVars, officesVars, electionsVars, captchaVars>>
       \/ /\ part = "mail" /\ MailCheckNext
          /\ UNCHANGED <<filesVars, deskVars, dumpVars, newsroomVars, followsVars, compassVars,
                         importVars, officesVars, electionsVars, captchaVars>>
       \/ /\ part = "dump" /\ DumpNext
          /\ UNCHANGED <<filesVars, deskVars, mailCheckVars, newsroomVars, followsVars,
                         compassVars, importVars, officesVars, electionsVars, captchaVars>>
       \/ /\ part = "newsroom" /\ NewsroomNext
          /\ UNCHANGED <<filesVars, deskVars, mailCheckVars, dumpVars, followsVars, compassVars,
                         importVars, officesVars, electionsVars, captchaVars>>
       \/ /\ part = "follows" /\ FollowsNext
          /\ UNCHANGED <<filesVars, deskVars, mailCheckVars, dumpVars, newsroomVars, compassVars,
                         importVars, officesVars, electionsVars, captchaVars>>
       \/ /\ part = "compass" /\ CompassNext
          /\ UNCHANGED <<filesVars, deskVars, mailCheckVars, dumpVars, newsroomVars, followsVars,
                         importVars, officesVars, electionsVars, captchaVars>>
       \/ /\ part = "import" /\ ImportNext
          /\ UNCHANGED <<filesVars, deskVars, mailCheckVars, dumpVars, newsroomVars, followsVars,
                         compassVars, officesVars, electionsVars, captchaVars>>
       \/ /\ part = "offices" /\ OfficesNext
          /\ UNCHANGED <<filesVars, deskVars, mailCheckVars, dumpVars, newsroomVars, followsVars,
                         compassVars, importVars, electionsVars, captchaVars>>
       \/ /\ part = "elections" /\ ElectionsNext
          /\ UNCHANGED <<filesVars, deskVars, mailCheckVars, dumpVars, newsroomVars, followsVars,
                         compassVars, importVars, officesVars, captchaVars>>
       \/ /\ part = "captcha" /\ CaptchaNext
          /\ UNCHANGED <<filesVars, deskVars, mailCheckVars, dumpVars, newsroomVars, followsVars,
                         compassVars, importVars, officesVars, electionsVars>>

RecordSpec == RecordInit /\ [][RecordNext]_recordVars

-----------------------------------------------------------------------------
(* The properties of the parts go by their own names, but for this one.      *)

(* Each part keeps to its types.                                             *)
TypesOK ==
    /\ part = "files" => FilesTypeOK
    /\ part = "desk" => DeskTypeOK
    /\ part = "mail" => MailCheckTypeOK
    /\ part = "dump" => DumpTypeOK
    /\ part = "newsroom" => NewsroomTypeOK
    /\ part = "follows" => FollowsTypeOK
    /\ part = "compass" => CompassTypeOK
    /\ part = "import" => ImportTypeOK
    /\ part = "offices" => OfficesTypeOK
    /\ part = "elections" => ElectionsTypeOK
    /\ part = "captcha" => CaptchaTypeOK
==============================================================================
